---------------------------- MODULE Spec2Model ----------------------------
(***************************************************************************)
(* Verification model of the breakpoint-tour agent: the plan schema, the   *)
(* instrumentation fragments it generates and what they do when they run   *)
(* in the inspected page, the MCP client's capability discovery, and the   *)
(* agent's run from connect to evaluate.                                   *)
(*                                                                         *)
(* JavaScript strings that the code only compares or concatenates          *)
(* (selectors, event types, status strings) are TLA+ strings; strings the  *)
(* code takes apart or lower-cases (function names, tool names) are        *)
(* sequences of one-character strings.                                     *)
(***************************************************************************)
EXTENDS Integers, Sequences, FiniteSets, TLC

VARIABLES
    raw,        \* the planner's structured output handed to the schema
    parsed,     \* the result of BreakpointPlanSchema on raw
    elements,   \* page: the selectors that currently match an element
    guideState, \* page: window.__breakpointGuide
    listeners,  \* page: addEventListener side effects per (selector, eventType)
    history,    \* per (selector, eventType): "never" run, every run so far "found"
                \* a matching element, or some run "missed" one
    window,     \* page: the bindings reachable from the global object
    lastRun,    \* the fragment run that just happened, and what it returned
    lastCall,   \* the call of a function of the page that just happened
    config,     \* the agent's options and the MCP server it talks to
    mcp,        \* ChromeDevToolsMCPClient: client, transport, cdpToolName
    session,    \* main() and BreakpointGuideAgent.run(): where they are
    subject,    \* the JSON value handed to the outline summarizer
    limits,     \* maxDepth and maxChildren handed to appendNodeSummary
    summary     \* what the summarizer made of the payload

vars == <<raw, parsed, elements, guideState, listeners, history,
          window, lastRun, lastCall, config, mcp, session, subject, limits, summary>>

pageVars == <<elements, guideState, listeners, history, window, lastRun, lastCall>>

agentVars == <<config, mcp, session>>

outlineVars == <<subject, limits, summary>>

---------------------------------------------------------------------------
(* JavaScript values as the planner's JSON can hold them.                  *)

Absent == [t |-> "undefined"]

Str(s) == [t |-> "string", v |-> s]

Num == [t |-> "number"]

Arr(xs) == [t |-> "array", v |-> xs]

IsString(x) == x.t = "string"

\* JavaScript truthiness of a value that is undefined or a string
Truthy(x) == IsString(x) /\ Len(x.v) > 0

NonEmptyStringOrAbsent(x) == x.t = "undefined" \/ Truthy(x)

---------------------------------------------------------------------------
(* The plan schema (zod): the base object, then the cross-field check.     *)

\* z.string().min(1).optional()
OptionalNonEmptyString(x, field) ==
    IF x.t = "undefined" THEN [abort |-> FALSE, issues |-> {}, out |-> Absent]
    ELSE IF ~IsString(x)
        THEN [abort |-> TRUE, issues |-> {<<"invalid_type", field>>}, out |-> Absent]
    ELSE IF Len(x.v) < 1
        THEN [abort |-> FALSE, issues |-> {<<"too_small", field>>}, out |-> x]
    ELSE [abort |-> FALSE, issues |-> {}, out |-> x]

\* z.string().optional()
OptionalString(x, field) ==
    IF x.t = "undefined" THEN [abort |-> FALSE, issues |-> {}, out |-> Absent]
    ELSE IF ~IsString(x)
        THEN [abort |-> TRUE, issues |-> {<<"invalid_type", field>>}, out |-> Absent]
    ELSE [abort |-> FALSE, issues |-> {}, out |-> x]

\* z.enum(["dom-event", "function-call"])
TargetTypeEnum(x) ==
    IF ~IsString(x)
        THEN [abort |-> TRUE, issues |-> {<<"invalid_type", "targetType">>}, out |-> Absent]
    ELSE IF x.v \notin {"dom-event", "function-call"}
        THEN [abort |-> TRUE, issues |-> {<<"invalid_enum_value", "targetType">>}, out |-> Absent]
    ELSE [abort |-> FALSE, issues |-> {}, out |-> x]

\* z.array(z.string()).default([])
ConsoleNotesArray(x) ==
    IF x.t = "undefined" THEN [abort |-> FALSE, issues |-> {}, out |-> Arr(<<>>)]
    ELSE IF x.t # "array"
        THEN [abort |-> TRUE, issues |-> {<<"invalid_type", "consoleNotes">>}, out |-> Absent]
    ELSE IF \E i \in 1..Len(x.v) : ~IsString(x.v[i])
        THEN [abort |-> TRUE, issues |-> {<<"invalid_type", "consoleNotes">>}, out |-> Absent]
    ELSE [abort |-> FALSE, issues |-> {}, out |-> x]

\* mutant: the cross-field check forgets the function-call variant
SuperRefine_DomEventOnly(value) ==
    IF value.targetType.v = "dom-event" /\ ~Truthy(value.selector)
        THEN {<<"custom", "selector is required for dom-event plans">>} ELSE {}

\* the .superRefine callback, on the object the base schema produced
SuperRefine(value) ==
    (IF value.targetType.v = "dom-event" /\ ~Truthy(value.selector)
        THEN {<<"custom", "selector is required for dom-event plans">>} ELSE {})
    \cup
    (IF value.targetType.v = "function-call" /\ ~Truthy(value.functionName)
        THEN {<<"custom", "functionName is required for function-call plans">>} ELSE {})

\* BreakpointPlanSchema.parse: [ok, plan, issues]
BreakpointPlanSchema(r) ==
    LET tt == TargetTypeEnum(r.targetType)
        se == OptionalNonEmptyString(r.selector, "selector")
        ev == OptionalNonEmptyString(r.eventType, "eventType")
        fn == OptionalNonEmptyString(r.functionName, "functionName")
        ex == OptionalString(r.explanation, "explanation")
        cn == ConsoleNotesArray(r.consoleNotes)
        base == tt.issues \cup se.issues \cup ev.issues \cup fn.issues
                    \cup ex.issues \cup cn.issues
        aborted == tt.abort \/ se.abort \/ ev.abort \/ fn.abort \/ ex.abort \/ cn.abort
        value == [targetType |-> tt.out, selector |-> se.out, eventType |-> ev.out,
                  functionName |-> fn.out, explanation |-> ex.out,
                  consoleNotes |-> cn.out]
        issues == IF aborted THEN base ELSE base \cup SuperRefine(value)
    IN  IF issues = {} THEN [ok |-> TRUE, plan |-> value, issues |-> {}]
        ELSE [ok |-> FALSE, plan |-> Absent, issues |-> issues]

NotParsed == [ok |-> FALSE, plan |-> Absent, issues |-> {<<"not", "parsed">>}]

---------------------------------------------------------------------------
(* Planner outputs the schema is checked on.                               *)

RawTargetTypes == {Absent, Num, Str("dom-event"), Str("function-call"), Str("breakpoint")}

RawSelectors == {Absent, Num, Str(""), Str("#save-btn")}

RawEventTypes == {Absent, Str(""), Str("click")}

RawFunctionNames == {Absent, Num, Str(<<>>), Str(<<"a", ".", "b">>)}

RawExplanations == {Absent, Num, Str("why")}

RawConsoleNotes == {Absent, Num, Arr(<<>>), Arr(<<Str("watch for race")>>), Arr(<<Num>>)}

RawPlans ==
    [targetType : RawTargetTypes, selector : RawSelectors, eventType : RawEventTypes,
     functionName : RawFunctionNames, explanation : RawExplanations,
     consoleNotes : RawConsoleNotes]

NoRaw ==
    [targetType |-> Absent, selector |-> Absent, eventType |-> Absent,
     functionName |-> Absent, explanation |-> Absent, consoleNotes |-> Absent]

---------------------------------------------------------------------------
(* The schema applied to one planner output.                               *)

\* the variables a specification does not use
NoPage ==
    /\ elements = {}
    /\ guideState = [present |-> FALSE, handlers |-> {}]
    /\ listeners = <<>>
    /\ history = <<>>
    /\ window = <<>>
    /\ lastRun = <<>>
    /\ lastCall = <<>>

NoAgent ==
    /\ config = <<>>
    /\ mcp = <<>>
    /\ session = <<>>

NoOutline ==
    /\ subject = <<>>
    /\ limits = <<>>
    /\ summary = <<>>

ValidateInit ==
    /\ raw \in RawPlans
    /\ parsed = NotParsed
    /\ NoPage
    /\ NoAgent
    /\ NoOutline

Validate ==
    /\ parsed = NotParsed
    /\ parsed' = BreakpointPlanSchema(raw)
    /\ UNCHANGED <<raw, pageVars, agentVars, outlineVars>>

SpecValidate == ValidateInit /\ [][Validate]_vars

---------------------------------------------------------------------------
(* The inspected page, as the event-listener fragment sees it.             *)

\* config.goal, the label the generated fragment logs
Goal == "trace the save button"

\* selector strings document.querySelector rejects with a SyntaxError
InvalidSelectors == {"#save-btn["}

Selectors == {"#save-btn", ".row"} \cup InvalidSelectors

EventTypes == {"click", "input"}

EventPairs == Selectors \X EventTypes

\* the validated dom-event plans the generator is run on
EventPlans ==
    LET raws == {[NoRaw EXCEPT !.targetType = Str("dom-event"), !.selector = Str(s),
                               !.eventType = e] :
                    s \in Selectors, e \in {Absent} \cup {Str(t) : t \in EventTypes}}
    IN  {BreakpointPlanSchema(r).plan : r \in {x \in raws : BreakpointPlanSchema(x).ok}}

\* plan.field ?? fallback
OrElse(x, fallback) == IF x.t = "undefined" THEN fallback ELSE x.v

\* buildEventInstrumentation: the constants the generated fragment closes over
buildEventInstrumentation(plan) ==
    [variant |-> "event",
     selector |-> OrElse(plan.selector, ""),
     eventType |-> OrElse(plan.eventType, "click"),
     label |-> Goal]

\* mutant: the key is the selector alone
RegistryKey_SelectorOnly(selector, eventType) == selector

\* const registryKey = selector + '::' + eventType
RegistryKey(selector, eventType) == selector \o "::" \o eventType

\* window.__breakpointGuide ?? (window.__breakpointGuide = { handlers: {} })
GuideStateOrNew(g) == IF g.present THEN g ELSE [present |-> TRUE, handlers |-> {}]

\* mutant: the registry is never consulted
AlreadyRegistered_NeverHit(g, key) == FALSE

\* if (guideState.handlers[registryKey])
AlreadyRegistered(g, key) == key \in g.handlers

\* document.querySelector(selector): "throws", "null" or "element"
QuerySelector(selector, els) ==
    IF selector \in InvalidSelectors THEN "throws"
    ELSE IF selector \in els THEN "element"
    ELSE "null"

NoRun ==
    [variant |-> "none", selector |-> "", eventType |-> "", path |-> <<>>,
     outcome |-> "none", status |-> "", registered |-> FALSE, target |-> "none",
     first |-> FALSE]

NoCall ==
    [fn |-> <<>>, receiver |-> "", args |-> <<>>, seen |-> <<>>, result |-> <<>>,
     pauses |-> 0, reported |-> 0, threw |-> FALSE, steps |-> <<>>]

\* the try block of a handler or wrapper and its catch block, as steps taken
Logging(logFails) == IF logFails THEN <<"log raised", "console.error">> ELSE <<"logged">>

\* mutant: the key is recorded before the element is looked up
eventFragment_RegistersBeforeLookup(expr, g0, els) ==
    LET registryKey == RegistryKey(expr.selector, expr.eventType)
        g == GuideStateOrNew(g0)
        g1 == [g EXCEPT !.handlers = @ \cup {registryKey}]
        target == QuerySelector(expr.selector, els)
    IN  IF AlreadyRegistered(g, registryKey)
            THEN [outcome |-> "returned", status |-> "[BreakpointGuide] already registered",
                  guide |-> g, attached |-> FALSE]
        ELSE IF target = "throws"
            THEN [outcome |-> "threw", status |-> "SyntaxError",
                  guide |-> g1, attached |-> FALSE]
        ELSE IF target = "null"
            THEN [outcome |-> "returned", status |-> "[BreakpointGuide] selector not found",
                  guide |-> g1, attached |-> FALSE]
        ELSE [outcome |-> "returned", status |-> "[BreakpointGuide] instrumentation attached",
              guide |-> g1, attached |-> TRUE]

\* the body of the generated event-listener fragment, run against the registry g0
\* and the elements els: what it returns or throws, the registry it leaves and
\* whether it called addEventListener
eventFragment(expr, g0, els) ==
    LET registryKey == RegistryKey(expr.selector, expr.eventType)
        g == GuideStateOrNew(g0)
        target == QuerySelector(expr.selector, els)
    IN  IF AlreadyRegistered(g, registryKey)
            THEN [outcome |-> "returned", status |-> "[BreakpointGuide] already registered",
                  guide |-> g, attached |-> FALSE]
        ELSE IF target = "throws"
            THEN [outcome |-> "threw", status |-> "SyntaxError",
                  guide |-> g, attached |-> FALSE]
        ELSE IF target = "null"
            THEN [outcome |-> "returned", status |-> "[BreakpointGuide] selector not found",
                  guide |-> g, attached |-> FALSE]
        ELSE [outcome |-> "returned", status |-> "[BreakpointGuide] instrumentation attached",
              guide |-> [g EXCEPT !.handlers = @ \cup {registryKey}], attached |-> TRUE]

\* one run of the event-listener fragment in the page
RunEventFragment(expr) ==
    LET pair == <<expr.selector, expr.eventType>>
        target == QuerySelector(expr.selector, elements)
        r == eventFragment(expr, guideState, elements)
    IN  /\ guideState' = r.guide
        /\ listeners' = IF r.attached THEN [listeners EXCEPT ![pair] = @ + 1] ELSE listeners
        /\ history' = [history EXCEPT ![pair] =
                          IF target = "element" /\ @ # "missed" THEN "found" ELSE "missed"]
        /\ lastRun' = [NoRun EXCEPT !.variant = "event", !.selector = expr.selector,
                          !.eventType = expr.eventType,
                          !.outcome = r.outcome, !.status = r.status,
                          !.registered =
                              RegistryKey(expr.selector, expr.eventType) \in guideState.handlers,
                          !.target = target,
                          !.first = (history[pair] = "never")]
        /\ UNCHANGED <<raw, parsed, elements, window, lastCall, agentVars, outlineVars>>

\* Runtime.evaluate of the fragment generated from a validated dom-event plan
EvaluateEvent ==
    \E plan \in EventPlans : RunEventFragment(buildEventInstrumentation(plan))

\* the page gains an element the selector matches
AddElement ==
    \E s \in Selectors \ InvalidSelectors :
        /\ s \notin elements
        /\ elements' = elements \cup {s}
        /\ UNCHANGED <<raw, parsed, guideState, listeners, history, window, lastRun, lastCall,
                       agentVars, outlineVars>>

\* the page loses the elements the selector matched
RemoveElement ==
    \E s \in elements :
        /\ elements' = elements \ {s}
        /\ UNCHANGED <<raw, parsed, guideState, listeners, history, window, lastRun, lastCall,
                       agentVars, outlineVars>>

EventInit ==
    /\ raw = NoRaw
    /\ parsed = NotParsed
    /\ elements \in SUBSET (Selectors \ InvalidSelectors)
    /\ guideState = [present |-> FALSE, handlers |-> {}]
    /\ listeners = [p \in EventPairs |-> 0]
    /\ history = [p \in EventPairs |-> "never"]
    /\ window = <<>>
    /\ lastRun = NoRun
    /\ lastCall = NoCall
    /\ NoAgent
    /\ NoOutline

EventNext == EvaluateEvent \/ AddElement \/ RemoveElement

SpecEvent == EventInit /\ [][EventNext]_vars

\* selectors with a pseudo-element: document.querySelector takes them and
\* finds no element for them
PseudoElementSelectors == {"#save-btn::after"}

\* two plans the schema accepts whose selector and event type both differ and
\* whose selector + '::' + eventType is the same string
CollidingPairs == {<<"#save-btn", "after::click">>, <<"#save-btn::after", "click">>}

\* the selectors and event types the registry is exercised with
RegistryPairs == {<<"#save-btn", "click">>, <<".row", "click">>} \cup CollidingPairs

\* the validated dom-event plans for them, with the event type given or left out
RegistryPlans ==
    LET raws == UNION {{[NoRaw EXCEPT !.targetType = Str("dom-event"),
                                      !.selector = Str(p[1]), !.eventType = e] :
                           e \in {Absent, Str(p[2])}} : p \in RegistryPairs}
    IN  {BreakpointPlanSchema(r).plan : r \in {x \in raws : BreakpointPlanSchema(x).ok}}

\* Runtime.evaluate of the fragment generated from one of these plans
EvaluateRegistered ==
    \E plan \in RegistryPlans : RunEventFragment(buildEventInstrumentation(plan))

RegistryInit ==
    /\ raw = NoRaw
    /\ parsed = NotParsed
    /\ elements \in SUBSET {p[1] : p \in {q \in RegistryPairs :
                                           q[1] \notin PseudoElementSelectors}}
    /\ guideState = [present |-> FALSE, handlers |-> {}]
    /\ listeners = [p \in RegistryPairs |-> 0]
    /\ history = [p \in RegistryPairs |-> "never"]
    /\ window = <<>>
    /\ lastRun = NoRun
    /\ lastCall = NoCall
    /\ NoAgent
    /\ NoOutline

\* mutant: the logging step is not guarded, so its failure ends the handler
handler_UnguardedLogging(p, logFails) ==
    IF logFails THEN [NoCall EXCEPT !.fn = p, !.threw = TRUE, !.steps = <<"log raised">>]
    ELSE [NoCall EXCEPT !.fn = p, !.pauses = 1, !.steps = <<"logged", "debugger">>]

\* the handler the fragment attached, called with an event: log (a failure is
\* caught and reported), then debugger
handler(p, logFails) ==
    [NoCall EXCEPT !.fn = p, !.pauses = 1, !.reported = IF logFails THEN 1 ELSE 0,
                   !.steps = Logging(logFails) \o <<"debugger">>]

\* the page dispatches an event of a type on the element of a selector that a
\* handler is attached for; logging inside the handler may fail
DispatchEvent ==
    \E p \in DOMAIN listeners, logFails \in BOOLEAN :
        /\ listeners[p] > 0
        /\ lastCall' = [handler(p, logFails) EXCEPT !.receiver = p[1], !.args = <<p[2]>>]
        /\ UNCHANGED <<raw, parsed, elements, guideState, listeners, history, window, lastRun,
                       agentVars, outlineVars>>

RegistryNext == EvaluateRegistered \/ AddElement \/ RemoveElement \/ DispatchEvent

SpecRegistry == RegistryInit /\ [][RegistryNext]_vars

---------------------------------------------------------------------------
(* The inspected page, as the function-wrapping fragment sees it.          *)

\* the most segments a function name the planner returns is taken to have
MaxSegments == 3

\* the segments function names are made of: the empty one, "a" and "b"
Segments == {<<>>, <<"a">>, <<"b">>}

\* segs[1] + "." + segs[2] + ... : the dotted name with these segments
RECURSIVE JoinDot(_)
JoinDot(segs) ==
    IF Len(segs) = 1 THEN Head(segs)
    ELSE Head(segs) \o <<".">> \o JoinDot(Tail(segs))

\* the function names, as sequences of characters: "a", "a.b", "a..b", ".", "", ...
FunctionNames ==
    {JoinDot(segs) : segs \in UNION {[1..n -> Segments] : n \in 1..MaxSegments}}

\* the validated function-call plans the generator is run on
FunctionPlans ==
    LET raws == {[NoRaw EXCEPT !.targetType = Str("function-call"),
                               !.functionName = Str(f)] : f \in FunctionNames}
    IN  {BreakpointPlanSchema(r).plan : r \in {x \in raws : BreakpointPlanSchema(x).ok}}

\* functionName.split('.')
RECURSIVE SplitDot(_)
SplitDot(s) ==
    IF s = <<>> THEN << <<>> >>
    ELSE IF Head(s) = "." THEN << <<>> >> \o SplitDot(Tail(s))
    ELSE LET rest == SplitDot(Tail(s))
         IN  << <<Head(s)>> \o Head(rest) >> \o Tail(rest)

\* buildFunctionInstrumentation: the constants the generated fragment closes over
buildFunctionInstrumentation(plan) ==
    [variant |-> "function",
     path |-> SplitDot(OrElse(plan.functionName, <<>>)),
     label |-> Goal]

\* the bindings of the page: window.a, window.a.b, window.a.b.a; every other
\* property is missing
HeapPaths ==
    { << <<"a">> >>, << <<"a">>, <<"b">> >>, << <<"a">>, <<"b">>, <<"a">> >> }

\* what a binding holds: no property, a falsy value (undefined, null, 0, ""),
\* a truthy primitive, a plain object, or a function under `wraps` wrapper layers
Kinds == {"absent", "falsy", "prim", "obj", "fn"}

Undefined == [k |-> "absent", wraps |-> 0]

GlobalObject == [k |-> "obj", wraps |-> 0]

\* the value a context path denotes; <<>> is window itself
ValueAt(w, ctx) ==
    IF ctx = <<>> THEN GlobalObject
    ELSE IF ctx \in HeapPaths THEN w[ctx]
    ELSE Undefined

\* !context
IsFalsy(v) == v.k \in {"absent", "falsy"}

\* part in context, for a context that is an object or a function
HasProperty(w, ctx, part) == ValueAt(w, Append(ctx, part)).k # "absent"

\* context[part]: a primitive has none of these properties
GetProperty(w, ctx, part) ==
    IF ValueAt(w, ctx).k \in {"obj", "fn"} THEN ValueAt(w, Append(ctx, part))
    ELSE Undefined

\* the for loop over path[0 .. length-2], from context ctx at index i (1-based)
RECURSIVE WalkPath(_, _, _, _)
WalkPath(w, path, i, ctx) ==
    IF i > Len(path) - 1 THEN [end |-> "walked", ctx |-> ctx]
    ELSE LET context == ValueAt(w, ctx)
         IN  IF IsFalsy(context) THEN [end |-> "missing", ctx |-> ctx]
             ELSE IF context.k = "prim" THEN [end |-> "TypeError", ctx |-> ctx]
             ELSE IF ~HasProperty(w, ctx, path[i]) THEN [end |-> "missing", ctx |-> ctx]
             ELSE WalkPath(w, path, i + 1, Append(ctx, path[i]))

\* mutant: the wrapping marker is never found
AlreadyWrapped_NeverSet(original) == FALSE

\* if (original.__breakpointGuideWrapped)
AlreadyWrapped(original) == original.wraps > 0

\* mutant: the target is replaced before the wrapping marker is looked at
functionFragment_ReplacesThenChecks(expr, w) ==
    LET path == expr.path
    IN  IF Len(path) = 0
            THEN [outcome |-> "returned", status |-> "[BreakpointGuide] invalid path",
                  window |-> w]
        ELSE
        LET walk == WalkPath(w, path, 1, <<>>)
            methodName == path[Len(path)]
            original == IF IsFalsy(ValueAt(w, walk.ctx)) THEN Undefined
                        ELSE GetProperty(w, walk.ctx, methodName)
        IN  IF walk.end = "missing"
                THEN [outcome |-> "returned", status |-> "[BreakpointGuide] missing segment",
                      window |-> w]
            ELSE IF walk.end = "TypeError"
                THEN [outcome |-> "threw", status |-> "TypeError", window |-> w]
            ELSE IF original.k # "fn"
                THEN [outcome |-> "returned", status |-> "[BreakpointGuide] not a function",
                      window |-> w]
            ELSE IF AlreadyWrapped(original)
                THEN [outcome |-> "returned", status |-> "[BreakpointGuide] already wrapped",
                      window |-> [w EXCEPT ![Append(walk.ctx, methodName)].wraps = @ + 1]]
            ELSE [outcome |-> "returned", status |-> "[BreakpointGuide] wrapped function",
                  window |-> [w EXCEPT ![Append(walk.ctx, methodName)].wraps = @ + 1]]

\* the body of the generated function-wrapping fragment, run against the
\* bindings w: what it returns or throws and the bindings it leaves
functionFragment(expr, w) ==
    LET path == expr.path
    IN  IF Len(path) = 0
            THEN [outcome |-> "returned", status |-> "[BreakpointGuide] invalid path",
                  window |-> w]
        ELSE
        LET walk == WalkPath(w, path, 1, <<>>)
            methodName == path[Len(path)]
            original == IF IsFalsy(ValueAt(w, walk.ctx)) THEN Undefined
                        ELSE GetProperty(w, walk.ctx, methodName)
        IN  IF walk.end = "missing"
                THEN [outcome |-> "returned", status |-> "[BreakpointGuide] missing segment",
                      window |-> w]
            ELSE IF walk.end = "TypeError"
                THEN [outcome |-> "threw", status |-> "TypeError", window |-> w]
            ELSE IF original.k # "fn"
                THEN [outcome |-> "returned", status |-> "[BreakpointGuide] not a function",
                      window |-> w]
            ELSE IF AlreadyWrapped(original)
                THEN [outcome |-> "returned", status |-> "[BreakpointGuide] already wrapped",
                      window |-> w]
            ELSE [outcome |-> "returned", status |-> "[BreakpointGuide] wrapped function",
                  window |-> [w EXCEPT ![Append(walk.ctx, methodName)].wraps = @ + 1]]

\* whether the path leads through objects to a function
ResolvesToFunction(w, path) ==
    /\ Len(path) > 0
    /\ path \in HeapPaths
    /\ \A n \in 1..(Len(path) - 1) : ValueAt(w, SubSeq(path, 1, n)).k \in {"obj", "fn"}
    /\ ValueAt(w, path).k = "fn"

\* one run of the function-wrapping fragment in the page
RunFunctionFragment(expr) ==
    LET r == functionFragment(expr, window)
        resolves == ResolvesToFunction(window, expr.path)
    IN  /\ window' = r.window
        /\ history' = IF resolves THEN [history EXCEPT ![expr.path] = "found"] ELSE history
        /\ lastRun' = [NoRun EXCEPT !.variant = "function", !.path = expr.path,
                          !.outcome = r.outcome, !.status = r.status,
                          !.target = IF resolves THEN "function" ELSE "none",
                          !.registered = resolves /\ AlreadyWrapped(ValueAt(window, expr.path)),
                          !.first = resolves /\ history[expr.path] = "never"]
        /\ lastCall' = NoCall
        /\ UNCHANGED <<raw, parsed, elements, guideState, listeners, agentVars, outlineVars>>

\* Runtime.evaluate of the fragment generated from a validated function-call plan
EvaluateFunction ==
    \E plan \in FunctionPlans : RunFunctionFragment(buildFunctionInstrumentation(plan))

\* function-call plans without a function name, or with the empty one: the
\* schema lets none of them through to run(), buildFunctionInstrumentation
\* takes them with its default, plan.functionName ?? ""
NamelessPlans ==
    {[NoRaw EXCEPT !.targetType = Str("function-call"), !.functionName = f,
                   !.consoleNotes = Arr(<<>>)] : f \in {Absent, Str(<<>>)}}

\* the fragment buildFunctionInstrumentation generates without a name, evaluated
EvaluateNameless ==
    \E plan \in NamelessPlans : RunFunctionFragment(buildFunctionInstrumentation(plan))

\* the receivers and argument lists the page calls its functions with
Receivers == {"window", "widget"}

ArgLists == {<<>>, <<"x">>, <<"x", "y">>}

\* the page's own function at path p, called with this and args: what it
\* saw and what it returned
original(p, this, args) ==
    [NoCall EXCEPT !.fn = p, !.seen = << <<this, args>> >>, !.result = <<p, this, args>>,
                   !.steps = <<"original">>]

RECURSIVE callFunction(_, _, _, _, _), wrapped(_, _, _, _, _)

\* mutant: the logging step is not guarded, so its failure ends the call
wrapped_UnguardedLogging(p, inner, this, args, logFails) ==
    IF logFails THEN [NoCall EXCEPT !.fn = p, !.threw = TRUE, !.steps = <<"log raised">>]
    ELSE [callFunction(p, inner, this, args, logFails) EXCEPT
             !.pauses = @ + 1, !.steps = <<"logged", "debugger">> \o @]

\* the wrapper installed by the fragment, around the function under `inner`
\* further layers: log (a failure is caught and reported), debugger, then
\* return original.apply(this, args)
wrapped(p, inner, this, args, logFails) ==
    LET r == callFunction(p, inner, this, args, logFails)
    IN  [r EXCEPT !.pauses = @ + 1, !.reported = @ + (IF logFails THEN 1 ELSE 0),
                  !.steps = Logging(logFails) \o <<"debugger">> \o @]

\* calling the function bound at p, which sits under `layers` wrapper layers
callFunction(p, layers, this, args, logFails) ==
    IF layers = 0 THEN original(p, this, args)
    ELSE wrapped(p, layers - 1, this, args, logFails)

\* the page calls one of its functions; logging inside a wrapper may fail
CallFunction ==
    \E p \in HeapPaths, this \in Receivers, args \in ArgLists, logFails \in BOOLEAN :
        /\ ResolvesToFunction(window, p)
        /\ lastCall' = [callFunction(p, window[p].wraps, this, args, logFails)
                            EXCEPT !.receiver = this, !.args = args]
        /\ lastRun' = NoRun
        /\ UNCHANGED <<raw, parsed, elements, guideState, listeners, history, window,
                       agentVars, outlineVars>>

\* the bindings a page can start with: a property exists only on an object
\* or a function, and nothing is wrapped yet
Heaps ==
    {w \in [HeapPaths -> [k : Kinds, wraps : {0}]] :
        \A p \in HeapPaths :
            (Len(p) > 1 /\ w[p].k # "absent") =>
                w[SubSeq(p, 1, Len(p) - 1)].k \in {"obj", "fn"}}

FunctionInit ==
    /\ raw = NoRaw
    /\ parsed = NotParsed
    /\ elements = {}
    /\ guideState = [present |-> FALSE, handlers |-> {}]
    /\ listeners = <<>>
    /\ history = [p \in HeapPaths |-> "never"]
    /\ window \in Heaps
    /\ lastRun = NoRun
    /\ lastCall = NoCall
    /\ NoAgent
    /\ NoOutline

FunctionNext == EvaluateFunction \/ EvaluateNameless \/ CallFunction

SpecFunction == FunctionInit /\ [][FunctionNext]_vars

\* a page with the event-listener fragments or with the function-wrapping
\* fragments installed in it, and the events and calls of the page
HandlersInit == RegistryInit \/ FunctionInit

HandlersNext ==
    \/ DOMAIN listeners # {} /\ RegistryNext
    \/ DOMAIN window # {} /\ FunctionNext

SpecHandlers == HandlersInit /\ [][HandlersNext]_vars

---------------------------------------------------------------------------
(* The MCP client: capability discovery.                                   *)

UpperCase ==
    <<"A", "B", "C", "D", "E", "F", "G", "H", "I", "J", "K", "L", "M",
      "N", "O", "P", "Q", "R", "S", "T", "U", "V", "W", "X", "Y", "Z">>

LowerCase ==
    <<"a", "b", "c", "d", "e", "f", "g", "h", "i", "j", "k", "l", "m",
      "n", "o", "p", "q", "r", "s", "t", "u", "v", "w", "x", "y", "z">>

\* String.prototype.toLowerCase
toLowerCase(str) ==
    [i \in 1..Len(str) |->
        IF \E j \in 1..Len(UpperCase) : UpperCase[j] = str[i]
            THEN LowerCase[CHOOSE j \in 1..Len(UpperCase) : UpperCase[j] = str[i]]
            ELSE str[i]]

\* String.prototype.includes
includes(str, sub) ==
    \E i \in 1..(Len(str) - Len(sub) + 1) : SubSeq(str, i, i + Len(sub) - 1) = sub

DEFAULT_CDP_TOOL_CANDIDATES ==
    { <<"c", "d", "p">>,
      <<"c", "a", "l", "l", "_", "c", "d", "p">>,
      <<"c", "h", "r", "o", "m", "i", "u", "m", "-", "c", "d", "p">>,
      <<"c", "h", "r", "o", "m", "e", "-", "d", "e", "v", "t", "o", "o", "l", "s", ":",
        "c", "a", "l", "l", "_", "c", "d", "p">>,
      <<"c", "a", "l", "l", "-", "c", "d", "p", "-", "m", "e", "t", "h", "o", "d">>,
      <<"d", "e", "v", "t", "o", "o", "l", "s", "-", "c", "d", "p">>,
      <<"c", "d", "p", ".", "c", "a", "l", "l">>,
      <<"c", "d", "p", "-", "m", "e", "t", "h", "o", "d">> }

\* new Set(DEFAULT_CDP_TOOL_CANDIDATES.map((name) => name.toLowerCase()))
candidates == {toLowerCase(c) : c \in DEFAULT_CDP_TOOL_CANDIDATES}

\* the body of the for loop: does this tool pass one of the two tests
ToolMatches(tool) ==
    LET name == toLowerCase(tool.name)
    IN  \/ name \in candidates
        \/ includes(name, <<"c", "d", "p">>)
        \/ includes(toLowerCase(OrElse(tool.description, <<>>)), <<"c", "d", "p">>)

\* mutant: the name is returned as it was compared, in lower case
RECURSIVE FirstMatch_LowerCased(_)
FirstMatch_LowerCased(tools) ==
    IF tools = <<>> THEN Absent
    ELSE IF ToolMatches(Head(tools)) THEN Str(toLowerCase(Head(tools).name))
    ELSE FirstMatch_LowerCased(Tail(tools))

\* for (const tool of availableTools): the name of the first tool that matches
RECURSIVE FirstMatch(_)
FirstMatch(tools) ==
    IF tools = <<>> THEN Absent
    ELSE IF ToolMatches(Head(tools)) THEN Str(Head(tools).name)
    ELSE FirstMatch(Tail(tools))

\* mutant: the override is looked at only after the capabilities were listed
resolveCdpToolName_ListsFirst(explicit, listing, tools) ==
    IF listing # "ok" THEN [name |-> Absent, listed |-> TRUE]
    ELSE IF Truthy(explicit) THEN [name |-> explicit, listed |-> TRUE]
    ELSE [name |-> FirstMatch(tools), listed |-> TRUE]

\* resolveCdpToolName: the name it returns, and whether it called listTools.
\* `listing` says whether the server answers tools/list, `tools` with what.
resolveCdpToolName(explicit, listing, tools) ==
    IF Truthy(explicit) THEN [name |-> explicit, listed |-> FALSE]
    ELSE IF listing # "ok" THEN [name |-> Absent, listed |-> TRUE]
    ELSE [name |-> FirstMatch(tools), listed |-> TRUE]

\* mutant: connect returns normally whatever the discovery found
DiscoveryError_Never(name) == ""

\* connect, after the discovery: the error it throws, "" when it returns
DiscoveryError(name) ==
    IF ~Truthy(name)
        THEN "Unable to discover a CDP bridge tool on the connected MCP server. Provide MCP_CDP_TOOL_NAME explicitly."
        ELSE ""

\* callCdpMethod: the error it throws before forwarding, "" when it forwards
callCdpMethod(m) ==
    IF ~m.client THEN "MCP client is not connected"
    ELSE IF ~Truthy(m.cdpToolName) THEN "CDP tool name is not resolved"
    ELSE ""

---------------------------------------------------------------------------
(* The DOM outline summarizer, on the JSON values a DOM.getDocument answer *)
(* can hold. Strings are sequences of characters; an object is the         *)
(* sequence of its <<key, value>> entries in insertion order.              *)

JNull == [t |-> "null"]

JNum(n) == [t |-> "number", v |-> n]

Obj(entries) == [t |-> "object", v |-> entries]

\* JavaScript truthiness
ToBoolean(x) ==
    CASE x.t \in {"undefined", "null"} -> FALSE
      [] x.t = "number" -> x.v # 0
      [] x.t = "string" -> Len(x.v) > 0
      [] OTHER -> TRUE

\* x && typeof x === "object": arrays are objects too, null is falsy
IsObject(x) == ToBoolean(x) /\ x.t \in {"object", "array"}

\* Array.isArray(x)
isArray(x) == x.t = "array"

\* key in x, for an object or an array and a key that is no index
HasKey(x, key) == x.t = "object" /\ \E i \in 1..Len(x.v) : x.v[i][1] = key

\* x[key]
GetKey(x, key) ==
    IF HasKey(x, key) THEN x.v[CHOOSE i \in 1..Len(x.v) : x.v[i][1] = key][2] ELSE Absent

\* a ?? b
Coalesce(a, b) == IF a.t \in {"undefined", "null"} THEN b ELSE a

Digits == <<"0", "1", "2", "3", "4", "5", "6", "7", "8", "9">>

\* String(n) and `${n}` for a natural number
RECURSIVE NumberToString(_)
NumberToString(n) ==
    IF n < Len(Digits) THEN <<Digits[n + 1]>>
    ELSE NumberToString(n \div Len(Digits)) \o <<Digits[(n % Len(Digits)) + 1]>>

\* String(x)
RECURSIVE String(_)
String(x) ==
    CASE x.t = "string" -> x.v
      [] x.t = "number" -> NumberToString(x.v)
      [] x.t = "null" -> <<"n", "u", "l", "l">>
      [] x.t = "undefined" -> <<"u", "n", "d", "e", "f", "i", "n", "e", "d">>
      [] x.t = "object" -> <<"[", "o", "b", "j", "e", "c", "t", " ", "O", "b", "j", "e", "c", "t", "]">>
      [] x.t = "array" ->
            IF x.v = <<>> THEN <<>>
            ELSE (IF Head(x.v).t \in {"undefined", "null"} THEN <<>> ELSE String(Head(x.v)))
                 \o (IF Len(x.v) > 1 THEN <<",">> \o String(Arr(Tail(x.v))) ELSE <<>>)

WhiteSpace == {" ", "\t", "\n", "\r"}

RECURSIVE trimStart(_)
trimStart(s) == IF s # <<>> /\ Head(s) \in WhiteSpace THEN trimStart(Tail(s)) ELSE s

RECURSIVE trimEnd(_)
trimEnd(s) ==
    IF s # <<>> /\ s[Len(s)] \in WhiteSpace THEN trimEnd(SubSeq(s, 1, Len(s) - 1)) ELSE s

\* String.prototype.trim
trim(s) == trimEnd(trimStart(s))

\* s.slice(0, end)
slice(s, end) == SubSeq(s, 1, IF Len(s) < end THEN Len(s) ELSE end)

\* "  ".repeat(depth)
repeat(depth) == [i \in 1..(2 * depth) |-> " "]

\* parts.join(separator)
RECURSIVE join(_, _)
join(parts, separator) ==
    IF parts = <<>> THEN <<>>
    ELSE IF Len(parts) = 1 THEN Head(parts)
    ELSE Head(parts) \o separator \o join(Tail(parts), separator)

\* formatAttributes: the flat [name, value, name, value, ...] encoding
RECURSIVE formatAttributes(_)
formatAttributes(attributes) ==
    IF attributes = <<>> THEN <<>>
    ELSE LET key == String(Coalesce(attributes[1], Str(<<>>)))
             value == String(Coalesce(IF Len(attributes) >= 2 THEN attributes[2] ELSE Absent,
                                      Str(<<>>)))
             rest == formatAttributes(IF Len(attributes) >= 2
                                          THEN SubSeq(attributes, 3, Len(attributes))
                                          ELSE <<>>)
         IN  IF Len(key) = 0 THEN rest
             ELSE << key \o <<"=", "\"">> \o value \o <<"\"">> >> \o rest

\* formatAttributeObject: the { name: value } encoding
formatAttributeObject(attributes) ==
    IF ~IsObject(attributes) THEN <<>>
    ELSE IF attributes.t = "array"
        THEN [i \in 1..Len(attributes.v) |->
                 NumberToString(i - 1) \o <<"=", "\"">> \o String(attributes.v[i]) \o <<"\"">>]
    ELSE [i \in 1..Len(attributes.v) |->
             attributes.v[i][1] \o <<"=", "\"">> \o String(attributes.v[i][2]) \o <<"\"">>]

\* the slice of "#text" values the outline keeps
TextSliceEnd == 60

\* mutant: the text is kept whole
TextLine_Untruncated(indent, value) == indent \o <<"#", "t", "e", "x", "t", " ">> \o value

\* `${indent}#text ${value.slice(0, 60)}`
TextLine(indent, value) == indent \o <<"#", "t", "e", "x", "t", " ">> \o slice(value, TextSliceEnd)

\* `${indent}<${nodeName.toLowerCase()}${attrString}>`
ElementLine(indent, nodeName, attrs) ==
    indent \o <<"<">> \o toLowerCase(nodeName)
           \o (IF Len(attrs) > 0 THEN <<" ">> \o join(attrs, <<" ">>) ELSE <<>>) \o <<">">>

\* `${indent}  ... (${count} more children)`
MarkerLine(indent, count) ==
    indent \o <<" ", " ", ".", ".", ".", " ", "(">> \o NumberToString(count) \o <<" ", "m", "o", "r", "e", " ", "c", "h", "i", "l", "d", "r", "e", "n", ")">>

\* a pushed line, with the place in the tree of the node that pushed it: the
\* indexes of the children on the way down from the root
Line(at, text) == [node |-> at, text |-> text]

\* mutant: the children of a node at the limit are rendered, those below are not
AtDepthLimit_OneDeeper(depth, maxDepth) == depth > maxDepth

\* if (depth >= maxDepth)
AtDepthLimit(depth, maxDepth) == depth >= maxDepth

\* mutant: the marker counts all the children
OmittedCount_AllChildren(children, maxChildren) == Len(children)

\* children.length - maxChildren
OmittedCount(children, maxChildren) == Len(children) - maxChildren

\* children.slice(0, maxChildren)
limited(children, maxChildren) ==
    SubSeq(children, 1, IF Len(children) < maxChildren THEN Len(children) ELSE maxChildren)

\* record.nodeName ?? record.localName ?? record.name ?? "?"
NodeName(record) ==
    Coalesce(GetKey(record, <<"n", "o", "d", "e", "N", "a", "m", "e">>),
        Coalesce(GetKey(record, <<"l", "o", "c", "a", "l", "N", "a", "m", "e">>),
            Coalesce(GetKey(record, <<"n", "a", "m", "e">>), Str(<<"?">>))))

\* Array.isArray(record.children) ? record.children : []
Children(record) ==
    IF isArray(GetKey(record, <<"c", "h", "i", "l", "d", "r", "e", "n">>)) THEN GetKey(record, <<"c", "h", "i", "l", "d", "r", "e", "n">>).v ELSE <<>>

\* appendNodeSummary: the lines after the node was summarized, or threw when
\* nodeName.toLowerCase is not a function. appendChildren is its for loop.
RECURSIVE appendNodeSummary(_, _, _, _, _, _), appendChildren(_, _, _, _, _, _, _)
appendNodeSummary(node, at, lines, depth, maxDepth, maxChildren) ==
    IF ~IsObject(node) THEN [threw |-> FALSE, lines |-> lines]
    ELSE
      LET nodeName == NodeName(node)
          indent == repeat(depth)
      IN
        IF nodeName = Str(<<"#", "t", "e", "x", "t">>)
        THEN LET value == trim(String(Coalesce(GetKey(node, <<"n", "o", "d", "e", "V", "a", "l", "u", "e">>), Str(<<>>))))
             IN  IF Len(value) = 0 THEN [threw |-> FALSE, lines |-> lines]
                 ELSE [threw |-> FALSE,
                       lines |-> Append(lines, Line(at, TextLine(indent, value)))]
        ELSE IF ~IsString(nodeName) THEN [threw |-> TRUE, lines |-> lines]
        ELSE
          LET attributes == GetKey(node, <<"a", "t", "t", "r", "i", "b", "u", "t", "e", "s">>)
              attrs == IF isArray(attributes) THEN formatAttributes(attributes.v)
                       ELSE formatAttributeObject(attributes)
              opened == Append(lines, Line(at, ElementLine(indent, nodeName.v, attrs)))
              children == Children(node)
          IN
            IF AtDepthLimit(depth, maxDepth)
            THEN [threw |-> FALSE,
                  lines |-> IF Len(children) > 0
                                THEN Append(opened, Line(at, MarkerLine(indent, Len(children))))
                                ELSE opened]
            ELSE
              LET done == appendChildren(limited(children, maxChildren), 1, at, opened,
                                         depth + 1, maxDepth, maxChildren)
              IN  IF done.threw THEN done
                  ELSE IF Len(children) > maxChildren
                      THEN [threw |-> FALSE,
                            lines |-> Append(done.lines,
                                Line(at, MarkerLine(indent, OmittedCount(children, maxChildren))))]
                      ELSE done

appendChildren(children, i, at, lines, depth, maxDepth, maxChildren) ==
    IF i > Len(children) THEN [threw |-> FALSE, lines |-> lines]
    ELSE LET r == appendNodeSummary(children[i], Append(at, i), lines,
                                    depth, maxDepth, maxChildren)
         IN  IF r.threw THEN r
             ELSE appendChildren(children, i + 1, at, r.lines, depth, maxDepth, maxChildren)

\* mutant: result.root is looked at before root
resolveRootNode_ResultFirst(payload) ==
    IF ~IsObject(payload) THEN Absent
    ELSE IF /\ HasKey(payload, <<"r", "e", "s", "u", "l", "t">>)
            /\ IsObject(GetKey(payload, <<"r", "e", "s", "u", "l", "t">>))
            /\ HasKey(GetKey(payload, <<"r", "e", "s", "u", "l", "t">>), <<"r", "o", "o", "t">>)
        THEN GetKey(GetKey(payload, <<"r", "e", "s", "u", "l", "t">>), <<"r", "o", "o", "t">>)
    ELSE IF HasKey(payload, <<"r", "o", "o", "t">>) THEN GetKey(payload, <<"r", "o", "o", "t">>)
    ELSE payload

\* resolveRootNode
resolveRootNode(payload) ==
    IF ~IsObject(payload) THEN Absent
    ELSE IF HasKey(payload, <<"r", "o", "o", "t">>) THEN GetKey(payload, <<"r", "o", "o", "t">>)
    ELSE IF /\ HasKey(payload, <<"r", "e", "s", "u", "l", "t">>)
            /\ IsObject(GetKey(payload, <<"r", "e", "s", "u", "l", "t">>))
            /\ HasKey(GetKey(payload, <<"r", "e", "s", "u", "l", "t">>), <<"r", "o", "o", "t">>)
        THEN GetKey(GetKey(payload, <<"r", "e", "s", "u", "l", "t">>), <<"r", "o", "o", "t">>)
    ELSE payload

\* the limits stringifyDomPayload summarizes with
OutlineMaxDepth == 3

OutlineMaxChildren == 8

\* stringifyDomPayload: what it returns, with the lines it was joined from,
\* or threw when appendNodeSummary did
stringifyDomPayload(payload) ==
    IF ~IsObject(payload) THEN [threw |-> FALSE, value |-> Absent, lines |-> <<>>]
    ELSE LET root == resolveRootNode(payload)
         IN  IF ~ToBoolean(root) THEN [threw |-> FALSE, value |-> Absent, lines |-> <<>>]
             ELSE LET r == appendNodeSummary(root, <<>>, <<>>, 0,
                                             OutlineMaxDepth, OutlineMaxChildren)
                  IN  IF r.threw THEN [threw |-> TRUE, value |-> Absent, lines |-> r.lines]
                      ELSE [threw |-> FALSE,
                            value |-> Str(join([i \in 1..Len(r.lines) |-> r.lines[i].text],
                                               <<"\n">>)),
                            lines |-> r.lines]

---------------------------------------------------------------------------
(* The payloads the summarizer is checked on.                              *)

TextNode(value) == Obj(<< <<<<"n", "o", "d", "e", "N", "a", "m", "e">>, Str(<<"#", "t", "e", "x", "t">>)>>, <<<<"n", "o", "d", "e", "V", "a", "l", "u", "e">>, value>> >>)

Element(nodeName, children) ==
    Obj(<< <<<<"n", "o", "d", "e", "N", "a", "m", "e">>, Str(nodeName)>>, <<<<"c", "h", "i", "l", "d", "r", "e", "n">>, Arr(children)>> >>)

\* the most children a node of the generated trees has
MaxKids == 3

\* the nodes at the bottom of the generated trees: a text, a text of white
\* space, an element without a children key, and an element whose nodeName is
\* a number
Leaves ==
    { TextNode(Str(<<"h", "i">>)),
      TextNode(Str(<<" ", "\n">>)),
      Obj(<< <<<<"n", "o", "d", "e", "N", "a", "m", "e">>, Str(<<"L", "I">>)>> >>),
      Obj(<< <<<<"n", "o", "d", "e", "N", "a", "m", "e">>, JNum(1)>> >>) }

Level1 == {Element(<<"U", "L">>, kids) : kids \in UNION {[1..n -> Leaves] : n \in 0..MaxKids}}

Level2 ==
    {Element(<<"B", "O", "D", "Y">>, <<n>> \o more) : n \in Level1, more \in {<<>>, <<TextNode(Str(<<"h", "i">>))>>}}

Level3 == {Element(<<"H", "T", "M", "L">>, <<n>>) : n \in Level2}

\* a text longer than the slice, with white space around and inside it
LongText == <<" ">> \o [i \in 1..40 |-> "x"] \o <<" ">> \o [i \in 1..40 |-> "y"] \o <<"\n">>

\* text nodes, by their nodeValue
TextNodes ==
    { TextNode(Str(<<>>)), TextNode(Str(<<" ", "\t", "\r", "\n", " ">>)), TextNode(Str(<<" ", " ", "a", " ", "b", " ", " ">>)),
      TextNode(Str(LongText)), TextNode(JNum(60)), TextNode(JNum(0)), TextNode(JNull),
      TextNode(Arr(<<>>)), TextNode(Arr(<<JNum(1), JNull, Str(<<"b">>)>>)),
      TextNode(Obj(<<>>)),
      Obj(<< <<<<"n", "o", "d", "e", "N", "a", "m", "e">>, Str(<<"#", "t", "e", "x", "t">>)>> >>),
      Obj(<< <<<<"l", "o", "c", "a", "l", "N", "a", "m", "e">>, Str(<<"#", "t", "e", "x", "t">>)>>, <<<<"n", "o", "d", "e", "V", "a", "l", "u", "e">>, Str(<<"b", "y", " ", "l", "o", "c", "a", "l", "N", "a", "m", "e">>)>> >>) }

\* an element over text nodes: a long one, one of white space, a number
Paragraph ==
    Element(<<"P">>, <<TextNode(Str(LongText)), TextNode(Str(<<" ", "\n">>)), TextNode(JNum(60))>>)

\* nodes with fields absent or of another type than the protocol gives them
OddNodes ==
    { Obj(<<>>),
      Arr(<<>>),
      Arr(<<TextNode(Str(<<"h", "i">>))>>),
      Obj(<< <<<<"n", "o", "d", "e", "N", "a", "m", "e">>, JNull>>, <<<<"l", "o", "c", "a", "l", "N", "a", "m", "e">>, Str(<<"D", "i", "v">>)>> >>),
      Obj(<< <<<<"n", "a", "m", "e">>, Str(<<"I", "F", "R", "A", "M", "E">>)>>, <<<<"c", "h", "i", "l", "d", "r", "e", "n">>, JNum(2)>> >>),
      Obj(<< <<<<"n", "o", "d", "e", "N", "a", "m", "e">>, Str(<<>>)>>, <<<<"c", "h", "i", "l", "d", "r", "e", "n">>, Obj(<<>>)>> >>),
      Obj(<< <<<<"n", "o", "d", "e", "N", "a", "m", "e">>, Str(<<"A">>)>>,
             <<<<"a", "t", "t", "r", "i", "b", "u", "t", "e", "s">>, Arr(<<Str(<<"h", "r", "e", "f">>), Str(<<"/", "x">>), Str(<<"i", "d">>)>>)>> >>),
      Obj(<< <<<<"n", "o", "d", "e", "N", "a", "m", "e">>, Str(<<"A">>)>>,
             <<<<"a", "t", "t", "r", "i", "b", "u", "t", "e", "s">>, Arr(<<JNull, Str(<<"v">>), JNum(7), Obj(<<>>)>>)>> >>),
      Obj(<< <<<<"n", "o", "d", "e", "N", "a", "m", "e">>, Str(<<"A">>)>>,
             <<<<"a", "t", "t", "r", "i", "b", "u", "t", "e", "s">>, Obj(<< <<<<"i", "d">>, Str(<<"s", "a", "v", "e", "-", "b", "t", "n">>)>>, <<<<"n">>, JNull>> >>)>> >>),
      Obj(<< <<<<"n", "o", "d", "e", "N", "a", "m", "e">>, Str(<<"A">>)>>, <<<<"a", "t", "t", "r", "i", "b", "u", "t", "e", "s">>, JNum(3)>> >>),
      Obj(<< <<<<"n", "o", "d", "e", "N", "a", "m", "e">>, JNum(0)>> >>),
      Obj(<< <<<<"n", "o", "d", "e", "N", "a", "m", "e">>, Obj(<<>>)>> >>),
      Obj(<< <<<<"n", "o", "d", "e", "N", "a", "m", "e">>, Arr(<<Str(<<"D", "I", "V">>)>>)>> >>),
      Element(<<"D", "I", "V">>, <<JNum(4), Str(<<"t", "e", "x", "t">>), JNull, Element(<<"P">>, <<>>)>>) }

\* a document deep and wide enough for the limits of stringifyDomPayload
DeepDocument ==
    Element(<<"H", "T", "M", "L">>,
        << Element(<<"B", "O", "D", "Y">>,
              [i \in 1..9 |->
                  Element(<<"P">>, << Element(<<"S", "P", "A", "N">>,
                                      << Element(<<"B">>, <<TextNode(Str(<<"h", "i">>))>>) >>) >>)]) >>)

\* the roots the wrappers of a payload are put around
Roots ==
    { Element(<<"H", "T", "M", "L">>, <<TextNode(Str(<<"h", "i">>))>>), TextNode(Str(<<" ", " ">>)), JNull,
      JNum(0), JNum(5), Str(<<>>), Arr(<<>>), DeepDocument }

Wrapped ==
    UNION { { Obj(<< <<<<"r", "o", "o", "t">>, r>> >>),
              Obj(<< <<<<"r", "e", "s", "u", "l", "t">>, Obj(<< <<<<"r", "o", "o", "t">>, r>> >>)>> >>),
              Obj(<< <<<<"r", "o", "o", "t">>, r>>,
                     <<<<"r", "e", "s", "u", "l", "t">>, Obj(<< <<<<"r", "o", "o", "t">>, Element(<<"O", "T", "H", "E", "R">>, <<>>)>> >>)>> >>),
              Obj(<< <<<<"r", "e", "s", "u", "l", "t">>, r>>, <<<<"n", "o", "d", "e", "N", "a", "m", "e">>, Str(<<"W", "H", "O", "L", "E">>)>> >>) } : r \in Roots }

Payloads ==
    Leaves \cup Level1 \cup Level2 \cup Level3 \cup TextNodes \cup OddNodes
        \cup Roots \cup Wrapped \cup {Paragraph} \cup {Str(<<"r", "o", "o", "t">>)}

\* the limits appendNodeSummary is checked with
Limits == [maxDepth : 0..2, maxChildren : 0..(MaxKids - 1)]

NoSummary == [op |-> "none", threw |-> FALSE, value |-> Absent, lines |-> <<>>]

OutlineInit ==
    /\ raw = NoRaw
    /\ parsed = NotParsed
    /\ NoPage
    /\ NoAgent
    /\ subject \in Payloads
    /\ limits \in Limits
    /\ summary = NoSummary

\* stringifyDomPayload(subject)
StringifyDomPayload ==
    /\ summary.op = "none"
    /\ LET r == stringifyDomPayload(subject)
       IN  summary' = [op |-> "stringify", threw |-> r.threw, value |-> r.value,
                       lines |-> r.lines]
    /\ UNCHANGED <<raw, parsed, pageVars, agentVars, subject, limits>>

\* appendNodeSummary(subject, [], 0, maxDepth, maxChildren)
AppendNodeSummary ==
    /\ summary.op = "none"
    /\ LET r == appendNodeSummary(subject, <<>>, <<>>, 0, limits.maxDepth, limits.maxChildren)
       IN  summary' = [op |-> "append", threw |-> r.threw, value |-> Absent,
                       lines |-> r.lines]
    /\ UNCHANGED <<raw, parsed, pageVars, agentVars, subject, limits>>

OutlineNext == StringifyDomPayload \/ AppendNodeSummary

SpecOutline == OutlineInit /\ [][OutlineNext]_vars

---------------------------------------------------------------------------
(* The servers and options a session runs against.                         *)

\* the most capabilities a server is taken to list
MaxTools == 2

ToolPool ==
    { [name |-> <<"f", "o", "o">>, description |-> Absent],
      [name |-> <<"b", "a", "r">>, description |-> Str(<<"r", "e", "a", "d", "s">>)],
      [name |-> <<"C", "a", "l", "l", "_", "C", "D", "P">>, description |-> Absent],
      [name |-> <<"x", "C", "d", "p", "2">>, description |-> Str(<<>>)],
      [name |-> <<"r", "u", "n">>, description |-> Str(<<"S", "e", "n", "d", " ", "C", "D", "P">>)] }

ToolLists == UNION {[1..n -> ToolPool] : n \in 0..MaxTools}

ExplicitNames == {Absent, Str(<<"c", "u", "s", "t", "o", "m", "-", "t", "o", "o", "l">>)}

\* the planner's answers: no structured output, or a structured output
PlannerOutputs ==
    {Absent} \cup
    {r \in RawPlans : /\ r.selector # Num
                      /\ r.functionName \in {Absent, Str(<<"a", ".", "b">>)}
                      /\ r.eventType = Absent
                      /\ r.explanation = Absent
                      /\ r.consoleNotes = Absent}

---------------------------------------------------------------------------
(* main() and BreakpointGuideAgent.run(), one await at a time.             *)

\* mutant: the Page domain is enabled first
DebuggingDomains_PageFirst ==
    <<"Page.enable", "Runtime.enable", "Debugger.enable", "DOM.enable">>

\* enableDebuggingDomains: the domains, in the order they are enabled
DebuggingDomains == <<"Runtime.enable", "Debugger.enable", "DOM.enable", "Page.enable">>

NoExpression == [variant |-> "none"]

\* the session goes on to `pc`
Goto(pc) == session' = [session EXCEPT !.pc = pc]

\* an await rejected inside run(): main's catch is next
Throw(s, error) == [s EXCEPT !.pc = "catch", !.error = error]

\* the request is sent to the server
Issue(s, request) == [s EXCEPT !.calls = Append(@, request)]

\* console.warn(message, error) in a catch block
Warn(s, message) == [s EXCEPT !.warnings = @ \cup {message}]

\* connect: new Client, await client.connect(transport)
ConnectTransport ==
    /\ session.pc = "connect"
    /\ ~mcp.client
    /\ \E ok \in BOOLEAN :
        IF ok
            THEN /\ mcp' = [mcp EXCEPT !.client = TRUE, !.transport = TRUE]
                 /\ session' = [Issue(session, "connect") EXCEPT !.pc = "resolve"]
            ELSE /\ session' = Throw(Issue(session, "connect"), "transport failed to connect")
                 /\ UNCHANGED mcp
    /\ UNCHANGED <<raw, parsed, pageVars, outlineVars, config>>

\* connect: this.cdpToolName = await this.resolveCdpToolName(); throw if none
ResolveTool ==
    /\ session.pc = "resolve"
    /\ LET r == resolveCdpToolName(config.explicitCdpToolName, config.listing, config.tools)
           listed == IF r.listed THEN Issue(session, "tools/list") ELSE session
           s == IF r.listed /\ config.listing # "ok"
                    THEN Warn(listed, "Failed to auto-discover CDP tool")
                    ELSE listed
       IN  /\ mcp' = [mcp EXCEPT !.cdpToolName = r.name]
           /\ session' = IF DiscoveryError(r.name) # ""
                             THEN Throw(s, DiscoveryError(r.name))
                             ELSE [s EXCEPT !.pc = "enable", !.connected = TRUE]
    /\ UNCHANGED <<raw, parsed, pageVars, outlineVars, config>>

\* a protocol call through callCdpMethod: refused by the client, or sent and
\* then answered or rejected by the server
ProtocolCall(method, next) ==
    IF callCdpMethod(mcp) # ""
        THEN session' = Throw(session, callCdpMethod(mcp))
        ELSE \E ok \in BOOLEAN :
                session' = IF ok THEN [Issue(session, method) EXCEPT !.pc = next]
                           ELSE Throw(Issue(session, method), "protocol call failed")

\* enableDebuggingDomains
EnableDomain ==
    /\ session.pc = "enable"
    /\ LET i == session.enabled + 1
       IN  IF callCdpMethod(mcp) # ""
               THEN session' = Throw(session, callCdpMethod(mcp))
               ELSE \E ok \in BOOLEAN :
                       session' =
                           IF ok THEN [Issue(session, DebuggingDomains[i]) EXCEPT
                                          !.enabled = i,
                                          !.pc = IF i = Len(DebuggingDomains)
                                                     THEN "navigate" ELSE "enable"]
                           ELSE Throw(Issue(session, DebuggingDomains[i]), "protocol call failed")
    /\ UNCHANGED <<raw, parsed, pageVars, outlineVars, config, mcp>>

\* navigateIfNeeded
Navigate ==
    /\ session.pc = "navigate"
    /\ IF ~config.navigationUrl THEN Goto("outline")
       ELSE ProtocolCall("Page.navigate", "outline")
    /\ UNCHANGED <<raw, parsed, pageVars, outlineVars, config, mcp>>

\* a tool result: the call rejected, or its content, absent or a list of items
Rejected == [rejected |-> TRUE, content |-> Absent]

ToolResult(content) == [rejected |-> FALSE, content |-> content]

JsonItem(value) == [type |-> "json", json |-> value]

\* a text item, by what JSON.parse makes of its text: a value or a SyntaxError
TextItem(text) == [type |-> "text", text |-> text]

JsonText(value) == [threw |-> FALSE, value |-> value]

NotJson == [threw |-> TRUE, value |-> Absent]

\* extractJsonPayload: the for loop over the items
RECURSIVE payloadsOf(_)
payloadsOf(contents) ==
    IF contents = <<>> THEN <<>>
    ELSE LET item == Head(contents)
         IN  (IF item.type = "json" THEN <<item.json>>
              ELSE IF item.type = "text" /\ ~item.text.threw THEN <<item.text.value>>
              ELSE <<>>) \o payloadsOf(Tail(contents))

\* extractJsonPayload
extractJsonPayload(result) ==
    payloadsOf(IF result.content = Absent THEN <<>> ELSE result.content.v)

RECURSIVE firstOutline(_), nextOutline(_, _)

\* mutant: a payload on which stringifyDomPayload throws is skipped
nextOutline_SkipsRaising(r, rest) ==
    IF ~r.threw /\ ToBoolean(r.value) THEN [threw |-> FALSE, outline |-> r.value]
    ELSE firstOutline(rest)

\* captureDomOutline: the body of the for loop, with what stringifyDomPayload
\* made of the payload: its exception ends the loop, a truthy outline is
\* returned, anything else leads to the next payload
nextOutline(r, rest) ==
    IF r.threw THEN [threw |-> TRUE, outline |-> Absent]
    ELSE IF ToBoolean(r.value) THEN [threw |-> FALSE, outline |-> r.value]
    ELSE firstOutline(rest)

\* captureDomOutline: the for loop over the payloads
firstOutline(payloads) ==
    IF payloads = <<>> THEN [threw |-> FALSE, outline |-> Absent]
    ELSE nextOutline(stringifyDomPayload(Head(payloads)), Tail(payloads))

\* "<dom outline unavailable>"
Placeholder == <<"<", "d", "o", "m", " ", "o", "u", "t", "l", "i", "n", "e", " ", "u", "n", "a", "v", "a", "i", "l", "a", "b", "l", "e", ">">>

\* captureDomOutline: what it returns after the loop ended as r, and whether
\* its catch block warned
outlineOrPlaceholder(r) ==
    IF r.threw THEN [outline |-> Placeholder, warned |-> TRUE]
    ELSE IF r.outline # Absent THEN [outline |-> r.outline.v, warned |-> FALSE]
    ELSE [outline |-> Placeholder, warned |-> FALSE]

\* captureDomOutline, from the answer to DOM.getDocument on
captureDomOutline(answer) ==
    IF answer.rejected THEN [outline |-> Placeholder, warned |-> TRUE]
    ELSE outlineOrPlaceholder(firstOutline(extractJsonPayload(answer)))

\* the answers to DOM.getDocument a session is run against
DocumentAnswers ==
    LET page == Element(<<"H", "T", "M", "L">>, <<TextNode(Str(<<"h", "i">>))>>)
        blank == TextNode(Str(<<" ", "\n">>))
    IN  { Rejected,
          ToolResult(Absent),
          ToolResult(Arr(<<TextItem(NotJson), [type |-> "image"]>>)),
          ToolResult(Arr(<<JsonItem(JNum(5)), JsonItem(Obj(<< <<<<"r", "o", "o", "t">>, JNull>> >>))>>)),
          ToolResult(Arr(<<JsonItem(Obj(<< <<<<"r", "o", "o", "t">>, blank>> >>))>>)),
          ToolResult(Arr(<<JsonItem(Obj(<< <<<<"r", "o", "o", "t">>, Obj(<< <<<<"n", "o", "d", "e", "N", "a", "m", "e">>, JNum(1)>> >>)>> >>)),
                           JsonItem(Obj(<< <<<<"r", "o", "o", "t">>, page>> >>))>>)),
          ToolResult(Arr(<<TextItem(JsonText(Obj(<< <<<<"r", "o", "o", "t">>, blank>> >>))),
                           JsonItem(Obj(<< <<<<"r", "e", "s", "u", "l", "t">>, Obj(<< <<<<"r", "o", "o", "t">>, page>> >>)>> >>))>>)) }

NoDocument == <<>>

\* captureDomOutline on each of these answers
Outlines == [answer \in DocumentAnswers |-> captureDomOutline(answer)]

\* captureDomOutline: await callCdpMethod("DOM.getDocument"), refused by the
\* client or sent and then answered or rejected
CaptureDomOutline ==
    /\ session.pc = "outline"
    /\ IF callCdpMethod(mcp) # ""
           THEN session' = [session EXCEPT !.pc = "summarize", !.document = Rejected]
           ELSE \E answer \in DocumentAnswers :
                   session' = [Issue(session, "DOM.getDocument") EXCEPT
                                  !.pc = "summarize", !.document = answer]
    /\ UNCHANGED <<raw, parsed, pageVars, outlineVars, config, mcp>>

\* run: const domOutline = await this.captureDomOutline(), which warned or not
Outlined(s, r) ==
    [(IF r.warned THEN Warn(s, "Unable to capture DOM outline") ELSE s)
        EXCEPT !.pc = "tools", !.domOutline = r.outline, !.document = NoDocument]

\* captureDomOutline: the rest of it, which returns an outline or the
\* placeholder to run()
SummarizeDocument ==
    /\ session.pc = "summarize"
    /\ session' = Outlined(session, Outlines[session.document])
    /\ UNCHANGED <<raw, parsed, pageVars, outlineVars, config, mcp>>

\* describeAvailableTools: listTools, with its failure caught
DescribeAvailableTools ==
    /\ session.pc = "tools"
    /\ LET listed == Issue(session, "tools/list")
           s == IF config.listing # "ok" THEN Warn(listed, "Unable to list MCP tools")
                ELSE listed
       IN  session' = [s EXCEPT
                          !.pc = "plan",
                          !.toolSummary = IF config.listing # "ok" THEN "(tool listing failed)"
                                          ELSE IF config.tools = <<>> THEN "(no tools reported)"
                                          ELSE "tools"]
    /\ UNCHANGED <<raw, parsed, pageVars, outlineVars, config, mcp>>

\* mutant: the planner's output is checked against the base shape only
generatePlan_NoCrossFieldCheck(output) ==
    IF output = Absent THEN NotParsed
    ELSE IF /\ NonEmptyStringOrAbsent(output.selector)
            /\ NonEmptyStringOrAbsent(output.functionName)
            /\ IsString(output.targetType)
            /\ output.targetType.v \in {"dom-event", "function-call"}
            /\ output.consoleNotes = Absent
        THEN [ok |-> TRUE, plan |-> [output EXCEPT !.consoleNotes = Arr(<<>>)], issues |-> {}]
    ELSE BreakpointPlanSchema(output)

\* generatePlan, after the planner answered: throw when there is no structured
\* output, else BreakpointPlanSchema.parse, which throws on issues
generatePlan(output) ==
    IF output = Absent THEN NotParsed
    ELSE BreakpointPlanSchema(output)

\* generatePlan: the request to the planner, which may fail, and its answer
GeneratePlan ==
    /\ session.pc = "plan"
    /\ \/ /\ session' = Throw(Issue(session, "responses.parse"), "planner request failed")
          /\ UNCHANGED <<raw, parsed>>
       \/ \E output \in PlannerOutputs :
            /\ raw' = output
            /\ parsed' = generatePlan(output)
            /\ session' =
                  IF output = Absent
                      THEN Throw([Issue(session, "responses.parse") EXCEPT !.answered = TRUE],
                                 "OpenAI did not return a structured breakpoint plan")
                  ELSE IF ~generatePlan(output).ok
                      THEN Throw([Issue(session, "responses.parse") EXCEPT !.answered = TRUE],
                                 "ZodError")
                  ELSE [Issue(session, "responses.parse") EXCEPT
                           !.answered = TRUE, !.pc = "install"]
    /\ UNCHANGED <<pageVars, outlineVars, config, mcp>>

\* installInstrumentation: the fragment for the plan's variant
installInstrumentation(plan) ==
    IF plan.targetType.v = "dom-event" THEN buildEventInstrumentation(plan)
    ELSE buildFunctionInstrumentation(plan)

\* installInstrumentation: build the fragment and evaluate it
InstallInstrumentation ==
    /\ session.pc = "install"
    /\ LET expression == installInstrumentation(parsed.plan)
       IN  IF callCdpMethod(mcp) # ""
               THEN session' = Throw(session, callCdpMethod(mcp))
               ELSE \E ok \in BOOLEAN :
                       session' =
                           IF ok THEN [Issue(session, "Runtime.evaluate") EXCEPT
                                          !.expression = expression, !.pc = "report"]
                           ELSE Throw([Issue(session, "Runtime.evaluate") EXCEPT
                                          !.expression = expression], "protocol call failed")
    /\ UNCHANGED <<raw, parsed, pageVars, outlineVars, config, mcp>>

\* run: the rest of it only prints
Report ==
    /\ session.pc = "report"
    /\ Goto("finally")
    /\ UNCHANGED <<raw, parsed, pageVars, outlineVars, config, mcp>>

\* mutant: the catch block ends the process, so the finally block never runs
Catch_ExitsAtOnce ==
    /\ session.pc = "catch"
    /\ session' = [session EXCEPT !.pc = "done", !.exitCode = 1]
    /\ UNCHANGED <<raw, parsed, pageVars, outlineVars, config, mcp>>

\* main: catch (error) { process.exitCode = 1 }
Catch ==
    /\ session.pc = "catch"
    /\ session' = [session EXCEPT !.pc = "finally", !.exitCode = 1]
    /\ UNCHANGED <<raw, parsed, pageVars, outlineVars, config, mcp>>

\* main: finally { await mcpClient.disconnect() }
Disconnect ==
    /\ session.pc = "finally"
    /\ session' = [(IF mcp.transport THEN Issue(session, "transport.close") ELSE session)
                      EXCEPT !.pc = "done", !.disconnects = @ + 1]
    /\ mcp' = [mcp EXCEPT !.transport = FALSE, !.client = FALSE]
    /\ UNCHANGED <<raw, parsed, pageVars, outlineVars, config>>

\* the server starts or stops answering tools/list
ListingChanges ==
    /\ session.pc \in {"connect", "resolve", "enable", "navigate", "outline", "summarize",
                        "tools"}
    /\ config' = [config EXCEPT !.listing = IF @ = "ok" THEN "fails" ELSE "ok"]
    /\ UNCHANGED <<raw, parsed, pageVars, outlineVars, mcp, session>>

---------------------------------------------------------------------------
(* The client on its own: connect, disconnect and callCdpMethod called in  *)
(* any order by the code that holds it.                                    *)

\* what the last call on the client did; `usable` says that a connect has
\* returned normally and no disconnect was called since
ClientAfter(s, op, error) ==
    [op |-> op, error |-> error,
     usable |-> IF op = "disconnect" THEN FALSE
                ELSE IF op = "connect" /\ error = "" THEN TRUE
                ELSE s.usable]

\* connect(): returns at once when a client is held; else connects the
\* transport, keeps client and transport, resolves the capability name and
\* throws when there is none
ClientConnect ==
    /\ IF mcp.client
           THEN /\ session' = ClientAfter(session, "connect", "")
                /\ UNCHANGED mcp
           ELSE \E ok \in BOOLEAN :
                   IF ~ok
                       THEN /\ session' = ClientAfter(session, "connect",
                                                   "transport failed to connect")
                            /\ UNCHANGED mcp
                       ELSE /\ mcp' = [client |-> TRUE, transport |-> TRUE,
                                       cdpToolName |->
                                           resolveCdpToolName(config.explicitCdpToolName,
                                                              config.listing,
                                                              config.tools).name]
                            /\ session' = ClientAfter(session, "connect",
                                                   DiscoveryError(mcp'.cdpToolName))
    /\ UNCHANGED <<raw, parsed, pageVars, outlineVars, config>>

\* disconnect(): closes the transport if there is one, drops transport and client
ClientDisconnect ==
    /\ mcp' = [mcp EXCEPT !.transport = FALSE, !.client = FALSE]
    /\ session' = ClientAfter(session, "disconnect", "")
    /\ UNCHANGED <<raw, parsed, pageVars, outlineVars, config>>

\* callCdpMethod(): throws without a client or without a name, else forwards
ClientCall ==
    /\ session' = ClientAfter(session, "callCdpMethod", callCdpMethod(mcp))
    /\ UNCHANGED <<raw, parsed, pageVars, outlineVars, config, mcp>>

\* the server starts or stops answering tools/list
ClientListingChanges ==
    /\ config' = [config EXCEPT !.listing = IF @ = "ok" THEN "fails" ELSE "ok"]
    /\ UNCHANGED <<raw, parsed, pageVars, outlineVars, mcp, session>>

ClientInit ==
    /\ raw = NoRaw
    /\ parsed = NotParsed
    /\ NoPage
    /\ NoOutline
    /\ config \in [explicitCdpToolName : ExplicitNames, navigationUrl : {FALSE},
                   tools : ToolLists, listing : {"ok", "fails"}]
    /\ mcp = [client |-> FALSE, transport |-> FALSE, cdpToolName |-> Absent]
    /\ session = [op |-> "new", error |-> "", usable |-> FALSE]

ClientNext == ClientConnect \/ ClientDisconnect \/ ClientCall \/ ClientListingChanges

SpecClient == ClientInit /\ [][ClientNext]_vars

AgentInit ==
    /\ raw = NoRaw
    /\ parsed = NotParsed
    /\ NoPage
    /\ NoOutline
    /\ config \in [explicitCdpToolName : ExplicitNames, navigationUrl : BOOLEAN,
                   tools : ToolLists, listing : {"ok", "fails"}]
    /\ mcp = [client |-> FALSE, transport |-> FALSE, cdpToolName |-> Absent]
    /\ session = [pc |-> "connect", calls |-> <<>>, error |-> "", exitCode |-> 0,
                  enabled |-> 0, connected |-> FALSE, answered |-> FALSE,
                  document |-> NoDocument, domOutline |-> <<>>,
                  toolSummary |-> "", warnings |-> {},
                  expression |-> NoExpression, disconnects |-> 0]

AgentNext ==
    \/ ConnectTransport
    \/ ResolveTool
    \/ EnableDomain
    \/ Navigate
    \/ CaptureDomOutline
    \/ SummarizeDocument
    \/ DescribeAvailableTools
    \/ GeneratePlan
    \/ InstallInstrumentation
    \/ Report
    \/ Catch
    \/ Disconnect
    \/ ListingChanges

SpecAgent == AgentInit /\ [][AgentNext]_vars

\* the steps of main and run(): each is an await that settles, after which
\* the event loop runs its continuation
MainStep ==
    \/ ConnectTransport
    \/ ResolveTool
    \/ EnableDomain
    \/ Navigate
    \/ CaptureDomOutline
    \/ SummarizeDocument
    \/ DescribeAvailableTools
    \/ GeneratePlan
    \/ InstallInstrumentation
    \/ Report
    \/ Catch
    \/ Disconnect

\* the servers a whole session is followed on: they list nothing or one capability
SessionToolLists == {<<>>} \cup {<<tool>> : tool \in ToolPool}

SessionInit ==
    /\ raw = NoRaw
    /\ parsed = NotParsed
    /\ NoPage
    /\ NoOutline
    /\ config \in [explicitCdpToolName : ExplicitNames, navigationUrl : BOOLEAN,
                   tools : SessionToolLists, listing : {"ok", "fails"}]
    /\ mcp = [client |-> FALSE, transport |-> FALSE, cdpToolName |-> Absent]
    /\ session = [pc |-> "connect", calls |-> <<>>, error |-> "", exitCode |-> 0,
                  enabled |-> 0, connected |-> FALSE, answered |-> FALSE,
                  document |-> NoDocument, domOutline |-> <<>>,
                  toolSummary |-> "", warnings |-> {},
                  expression |-> NoExpression, disconnects |-> 0]

\* a session in which every request is answered or rejected in the end
SpecAgentFair == SessionInit /\ [][AgentNext]_vars /\ WF_vars(MainStep)

---------------------------------------------------------------------------
(* Claims about the event-listener fragment, checked under SpecEvent.      *)

LastPair == <<lastRun.selector, lastRun.eventType>>

LastKey == RegistryKey(lastRun.selector, lastRun.eventType)

\* C1: in a page where an element matches the selector at every run, the first
\* run for a (selector, eventType) reports "instrumentation attached", every
\* later run for it reports "already registered", and no (selector, eventType)
\* ever has more than one listener attached.
C1_EventFragmentIdempotent ==
    /\ \A p \in EventPairs : listeners[p] <= 1
    /\ (lastRun.variant = "event" /\ history[LastPair] = "found") =>
          /\ lastRun.outcome = "returned"
          /\ lastRun.first => lastRun.status = "[BreakpointGuide] instrumentation attached"
          /\ ~lastRun.first => lastRun.status = "[BreakpointGuide] already registered"
          /\ listeners[LastPair] = 1

\* C1 witness: a second run for a pair whose element was there at every run
C1_Witness ==
    /\ lastRun.variant = "event"
    /\ history[LastPair] = "found"
    /\ ~lastRun.first
    /\ lastRun.status = "[BreakpointGuide] already registered"
    /\ listeners[LastPair] = 1

\* C6 as stated: whenever the fragment runs and no element matches its selector
\* it reports "selector not found".
C6_NoMatchReportsNotFound ==
    (lastRun.variant = "event" /\ lastRun.target = "null") =>
        lastRun.status = "[BreakpointGuide] selector not found"

\* C6 amended: when the fragment runs for a key that is not yet registered and
\* no element matches its selector, it reports "selector not found", attaches no
\* listener and leaves the key unregistered; and a run for an unregistered key
\* whose selector matches an element reports "instrumentation attached", also
\* after earlier runs that found none.
C6_NotFoundLeavesNoEntry ==
    /\ (lastRun.variant = "event" /\ lastRun.target = "null" /\ ~lastRun.registered) =>
          /\ lastRun.outcome = "returned"
          /\ lastRun.status = "[BreakpointGuide] selector not found"
          /\ LastKey \notin guideState.handlers
          /\ listeners[LastPair] = 0
    /\ (lastRun.variant = "event" /\ lastRun.target = "element" /\ ~lastRun.registered) =>
          /\ lastRun.status = "[BreakpointGuide] instrumentation attached"
          /\ LastKey \in guideState.handlers
          /\ listeners[LastPair] = 1

\* C6 witness: a run attaches after an earlier run for the same pair found no element
C6_Witness ==
    /\ lastRun.variant = "event"
    /\ history[LastPair] = "missed"
    /\ ~lastRun.first
    /\ lastRun.target = "element"
    /\ lastRun.status = "[BreakpointGuide] instrumentation attached"

---------------------------------------------------------------------------
(* Claims about the function-wrapping fragment, checked under SpecFunction.*)

\* C2: for a path that resolves to a function, the first run reports "wrapped
\* function" and leaves a marked wrapper there, every later run reports
\* "already wrapped", and the path never holds a wrapper around a wrapper.
C2_FunctionFragmentIdempotent ==
    /\ \A p \in HeapPaths : window[p].wraps <= 1
    /\ (lastRun.variant = "function" /\ lastRun.target = "function") =>
          /\ lastRun.outcome = "returned"
          /\ lastRun.first => lastRun.status = "[BreakpointGuide] wrapped function"
          /\ ~lastRun.first => lastRun.status = "[BreakpointGuide] already wrapped"
          /\ window[lastRun.path] = [k |-> "fn", wraps |-> 1]

\* C2 witness: a later run on a path that was wrapped by an earlier one
C2_Witness ==
    /\ lastRun.variant = "function"
    /\ lastRun.target = "function"
    /\ ~lastRun.first
    /\ lastRun.status = "[BreakpointGuide] already wrapped"
    /\ window[lastRun.path].wraps = 1

\* C3: whatever runs of the fragment came before, a call of a function of the
\* page reaches the page's own function exactly once, with the caller's
\* receiver and arguments, and returns what that function returned, also when
\* the wrapper's logging fails.
C3_WrapperForwardsOnce ==
    lastCall.fn # <<>> =>
        /\ ~lastCall.threw
        /\ lastCall.seen = << <<lastCall.receiver, lastCall.args>> >>
        /\ lastCall.result = original(lastCall.fn, lastCall.receiver, lastCall.args).result

\* C3 witness: a call through the wrapper in which the logging failed
C3_Witness ==
    /\ lastCall.fn # <<>>
    /\ window[lastCall.fn].wraps = 1
    /\ lastCall.pauses = 1
    /\ lastCall.reported = 1
    /\ Len(lastCall.args) = 2

\* C4 as stated: a run of a generated fragment never throws, it returns a status.
C4_FragmentNeverThrows ==
    lastRun.variant # "none" => lastRun.outcome = "returned"

\* the eight status strings, and the same behind the "[BreakpointGuide] " tag
\* the fragments put before every message
EventStatuses == {"already registered", "selector not found", "instrumentation attached"}

FunctionStatuses ==
    {"invalid path", "missing path segment", "not a function", "already wrapped",
     "wrapped function"}

Tagged(texts) == texts \cup {"[BreakpointGuide] " \o t : t \in texts}

\* C5 as stated, reading each status with or without the tag: every run returns
\* one of the eight status strings, the event variant one of the first three and
\* the function variant one of the last five.
C5_ReturnsOneOfEightStatuses ==
    /\ lastRun.variant = "event" =>
          lastRun.outcome = "returned" /\ lastRun.status \in Tagged(EventStatuses)
    /\ lastRun.variant = "function" =>
          lastRun.outcome = "returned" /\ lastRun.status \in Tagged(FunctionStatuses)

---------------------------------------------------------------------------
(* Claims about a session, checked under SpecAgent.                        *)

Called(request) == \E i \in 1..Len(session.calls) : session.calls[i] = request

CallCount(request) == Cardinality({i \in 1..Len(session.calls) : session.calls[i] = request})

Aborted == session.pc \in {"catch", "finally", "done"} /\ session.error # ""

\* C8: when the planner returns no structured plan, or one the schema rejects,
\* the run aborts and Runtime.evaluate is never called; and Runtime.evaluate
\* is only ever called with the fragment generated from a plan the schema
\* accepted.
C8_EvaluateOnlyValidatedPlan ==
    /\ (session.answered /\ (raw = Absent \/ ~BreakpointPlanSchema(raw).ok)) =>
          /\ Aborted
          /\ ~Called("Runtime.evaluate")
          /\ session.expression = NoExpression
    /\ (Called("Runtime.evaluate") \/ session.expression # NoExpression) =>
          /\ raw # Absent
          /\ BreakpointPlanSchema(raw).ok
          /\ session.expression = installInstrumentation(BreakpointPlanSchema(raw).plan)
          /\ CallCount("Runtime.evaluate") = 1

\* C8 witness: the planner answered a plan the schema rejects and the session
\* ended without an evaluate call
C8_Witness ==
    /\ session.answered
    /\ raw # Absent
    /\ raw.targetType = Str("function-call")
    /\ raw.functionName = Absent
    /\ session.pc = "done"
    /\ session.exitCode = 1
    /\ ~Called("Runtime.evaluate")

\* no override is configured and no listed capability matches
NothingToDiscover ==
    /\ ~Truthy(config.explicitCdpToolName)
    /\ \A i \in 1..Len(config.tools) : ~ToolMatches(config.tools[i])

\* C9: with no override and no matching capability, connect fails with the
\* discovery error and the session sends nothing but the transport connect, the
\* capability listing and the transport close: no protocol call, no planner
\* request.
C9_DiscoveryFailureAborts ==
    NothingToDiscover =>
        /\ \A i \in 1..Len(session.calls) :
              session.calls[i] \in {"connect", "tools/list", "transport.close"}
        /\ ~session.connected
        /\ (session.pc \notin {"connect", "resolve"}
                /\ session.error # "transport failed to connect") =>
              /\ Aborted
              /\ session.error = DiscoveryError(Absent)
              /\ session.error # ""

\* C9 witness: a server that lists capabilities, none of them a bridge, and a
\* session that ended on the discovery error
C9_Witness ==
    /\ NothingToDiscover
    /\ Len(config.tools) >= 1
    /\ Called("tools/list")
    /\ session.pc = "done"
    /\ session.exitCode = 1
    /\ session.error = DiscoveryError(Absent)

\* C10: with an override configured, connect resolves to exactly the override
\* whatever the server lists, and no tools/list is sent for it: the only
\* tools/list of the session is the one describeAvailableTools sends.
C10_OverrideReturnedUnconditionally ==
    Truthy(config.explicitCdpToolName) =>
        /\ CallCount("tools/list") = (IF session.toolSummary = "" THEN 0 ELSE 1)
        /\ (session.pc \notin {"connect", "resolve"}
                /\ session.error # "transport failed to connect") =>
              /\ session.connected
              /\ mcp.cdpToolName = config.explicitCdpToolName
              /\ session.error # DiscoveryError(Absent)

\* C10 witness: the override is resolved against a server whose tools/list fails
\* and which would list another matching capability
C10_Witness ==
    /\ Truthy(config.explicitCdpToolName)
    /\ config.listing = "fails"
    /\ Len(config.tools) >= 1
    /\ ToolMatches(config.tools[1])
    /\ session.pc = "enable"
    /\ session.calls = <<"connect">>
    /\ mcp.cdpToolName = config.explicitCdpToolName

---------------------------------------------------------------------------
(* Claims about the plan schema, checked under SpecValidate.               *)

NonEmptyString(x) == IsString(x) /\ Len(x.v) >= 1

\* the variant's required field is a non-empty string
RequiredFieldGiven(r) ==
    \/ IsString(r.targetType) /\ r.targetType.v = "dom-event" /\ NonEmptyString(r.selector)
    \/ IsString(r.targetType) /\ r.targetType.v = "function-call"
          /\ NonEmptyString(r.functionName)

\* every optional field that is given has the type the schema wants
OptionalFieldsWellFormed(r) ==
    /\ \A x \in {r.selector, r.eventType} : x = Absent \/ NonEmptyString(x)
    /\ r.functionName = Absent \/ NonEmptyString(r.functionName)
    /\ r.explanation = Absent \/ IsString(r.explanation)
    /\ \/ r.consoleNotes = Absent
       \/ /\ r.consoleNotes.t = "array"
          /\ \A i \in 1..Len(r.consoleNotes.v) : IsString(r.consoleNotes.v[i])

\* C7 as stated: validation succeeds exactly for the plans whose targetType is
\* one of the two tags and whose required field is a non-empty string.
C7_AcceptsWhenRequiredFieldGiven ==
    parsed # NotParsed => (parsed.ok <=> RequiredFieldGiven(raw))

\* C7 amended: validation succeeds exactly for the plans whose targetType is one
\* of the two tags, whose required field is a non-empty string and whose other
\* given fields are well-formed; the validated plan then has consoleNotes empty
\* when the input omitted it, every other omitted field absent and every given
\* field as given.
C7_SchemaAcceptsExactlyWellFormedPlans ==
    parsed # NotParsed =>
        /\ parsed.ok <=> (RequiredFieldGiven(raw) /\ OptionalFieldsWellFormed(raw))
        /\ parsed.ok =>
              /\ parsed.plan.consoleNotes =
                    (IF raw.consoleNotes = Absent THEN Arr(<<>>) ELSE raw.consoleNotes)
              /\ parsed.plan.targetType = raw.targetType
              /\ parsed.plan.selector = raw.selector
              /\ parsed.plan.eventType = raw.eventType
              /\ parsed.plan.functionName = raw.functionName
              /\ parsed.plan.explanation = raw.explanation

\* C7 witness: an accepted function-call plan that gave only its required field
C7_Witness ==
    /\ parsed.ok
    /\ raw.targetType = Str("function-call")
    /\ raw.consoleNotes = Absent
    /\ parsed.plan.consoleNotes = Arr(<<>>)
    /\ parsed.plan.selector = Absent
    /\ parsed.plan.eventType = Absent
    /\ parsed.plan.explanation = Absent

---------------------------------------------------------------------------
(* Claims about capability discovery, checked under SpecAgent.             *)

\* the discovery listed the capabilities and got the list
DiscoveredFromList ==
    /\ ~Truthy(config.explicitCdpToolName)
    /\ session.pc \notin {"connect", "resolve"}
    /\ session.error # "transport failed to connect"
    /\ "Failed to auto-discover CDP tool" \notin session.warnings

\* the three criteria, on each capability a server may list
Criteria ==
    [tool \in ToolPool |->
        [name |-> toLowerCase(tool.name) \in candidates,
         part |-> includes(toLowerCase(tool.name), <<"c", "d", "p">>),
         description |-> /\ IsString(tool.description)
                         /\ includes(toLowerCase(tool.description.v), <<"c", "d", "p">>)]]

\* the three criteria, on the i-th listed capability
MatchesByName(i) == Criteria[config.tools[i]].name

MatchesByNamePart(i) == Criteria[config.tools[i]].part

MatchesByDescription(i) == Criteria[config.tools[i]].description

MatchesAny(i) == MatchesByName(i) \/ MatchesByNamePart(i) \/ MatchesByDescription(i)

\* C11: without an override, the resolved name is the name as listed of the
\* first capability in list order that matches by one of the three criteria,
\* and it is absent exactly when no listed capability matches.
C11_FirstMatchInListOrder ==
    DiscoveredFromList =>
        /\ (mcp.cdpToolName = Absent) <=> (\A i \in 1..Len(config.tools) : ~MatchesAny(i))
        /\ \A i \in 1..Len(config.tools) :
              (MatchesAny(i) /\ \A j \in 1..(i - 1) : ~MatchesAny(j)) =>
                  mcp.cdpToolName = Str(config.tools[i].name)

\* C11 witness: the second of two listed capabilities is the first that
\* matches, by its name in another case than the candidate's, and a session
\* went on with its name as listed
C11_Witness ==
    /\ DiscoveredFromList
    /\ Len(config.tools) = 2
    /\ ~MatchesAny(1)
    /\ MatchesByName(2)
    /\ config.tools[2].name # toLowerCase(config.tools[2].name)
    /\ mcp.cdpToolName = Str(config.tools[2].name)
    /\ session.pc = "enable"

---------------------------------------------------------------------------
(* Claims about the outline summarizer, checked under SpecOutline.         *)

\* the root and the limits the summarizer call that happened worked with
SummaryRoot == IF summary.op = "stringify" THEN resolveRootNode(subject) ELSE subject

SummaryMaxDepth == IF summary.op = "stringify" THEN OutlineMaxDepth ELSE limits.maxDepth

SummaryMaxChildren ==
    IF summary.op = "stringify" THEN OutlineMaxChildren ELSE limits.maxChildren

\* the call returned, with these lines
Returned == summary.op # "none" /\ ~summary.threw

\* the number of spaces a line starts with
RECURSIVE Indentation(_)
Indentation(text) ==
    IF text # <<>> /\ Head(text) = " " THEN 1 + Indentation(Tail(text)) ELSE 0

StartsWith(text, prefix) ==
    Len(text) >= Len(prefix) /\ SubSeq(text, 1, Len(prefix)) = prefix

Unindented(text) == SubSeq(text, Indentation(text) + 1, Len(text))

IsMarkerLine(text) == StartsWith(Unindented(text), <<".", ".", ".", " ", "(">>)

IsElementLine(text) == StartsWith(Unindented(text), <<"<">>)

IsTextLine(text) == StartsWith(Unindented(text), <<"#", "t", "e", "x", "t", " ">>)

\* the node at a place of the tree
RECURSIVE NodeAt(_, _)
NodeAt(node, at) ==
    IF at = <<>> THEN node ELSE NodeAt(Children(node)[Head(at)], Tail(at))

\* `at` is the place of node `below` or of one of its ancestors
IsPrefix(at, below) == Len(at) <= Len(below) /\ SubSeq(below, 1, Len(at)) = at

\* C12: no line is pushed for a node deeper than the depth limit: every element
\* and text line belongs to a node at depth maxDepth or less and is indented by
\* two spaces per level of that depth, so by 2 * maxDepth at most, and a marker
\* line belongs to such a node and is indented one level deeper than it.
C12_NoLineBelowDepthLimit ==
    summary.op # "none" =>
        \A i \in 1..Len(summary.lines) :
            LET l == summary.lines[i]
            IN  /\ Len(l.node) <= SummaryMaxDepth
                /\ IsMarkerLine(l.text) \/ IsElementLine(l.text) \/ IsTextLine(l.text)
                /\ IsMarkerLine(l.text) => Indentation(l.text) = 2 * (Len(l.node) + 1)
                /\ ~IsMarkerLine(l.text) =>
                      /\ Indentation(l.text) = 2 * Len(l.node)
                      /\ Indentation(l.text) <= 2 * SummaryMaxDepth

\* C12 witness: a summary with an element line at the depth limit, for a node
\* that has children
C12_Witness ==
    /\ Returned
    /\ \E i \in 1..Len(summary.lines) :
          /\ Len(summary.lines[i].node) = SummaryMaxDepth
          /\ IsElementLine(summary.lines[i].text)
          /\ Children(NodeAt(SummaryRoot, summary.lines[i].node)) # <<>>

IsTextNode(node) == IsObject(node) /\ NodeName(node) = Str(<<"#", "t", "e", "x", "t">>)

\* the places of the nodes appendNodeSummary was applied to: the root, and the
\* first maxChildren children of every element above the depth limit that has a
\* line
VisitedPlaces ==
    {<<>>} \cup
    UNION { { Append(summary.lines[i].node, k) :
                 k \in 1..Len(limited(Children(NodeAt(SummaryRoot, summary.lines[i].node)),
                                      SummaryMaxChildren)) } :
            i \in {j \in 1..Len(summary.lines) :
                      /\ IsElementLine(summary.lines[j].text)
                      /\ Len(summary.lines[j].node) < SummaryMaxDepth} }

\* C14: in a returned outline, a text node the summarizer was applied to has no
\* line when its value is empty or white space only, and otherwise exactly one
\* line: the indentation, "#text " and the first 60 characters of the trimmed
\* value.
C14_TextNodeLine ==
    Returned =>
        \A at \in VisitedPlaces :
            IsTextNode(NodeAt(SummaryRoot, at)) =>
                LET nodeValue == GetKey(NodeAt(SummaryRoot, at), <<"n", "o", "d", "e", "V", "a", "l", "u", "e">>)
                    value == trim(String(Coalesce(nodeValue, Str(<<>>))))
                    mine == {i \in 1..Len(summary.lines) : summary.lines[i].node = at}
                IN  IF \A c \in 1..Len(value) : value[c] \in WhiteSpace
                        THEN mine = {}
                    ELSE /\ Cardinality(mine) = 1
                         /\ \A i \in mine :
                               summary.lines[i].text =
                                   [c \in 1..(2 * Len(at)) |-> " "] \o <<"#", "t", "e", "x", "t", " ">>
                                       \o SubSeq(value, 1, IF Len(value) < 60
                                                               THEN Len(value) ELSE 60)

\* C14 witness: a text of more than 60 characters after trimming, below an
\* element, summarized into one line of 60 of them
C14_Witness ==
    /\ Returned
    /\ \E i \in 1..Len(summary.lines) :
          /\ IsTextLine(summary.lines[i].text)
          /\ Len(summary.lines[i].node) = 1
          /\ Len(trim(String(GetKey(NodeAt(SummaryRoot, summary.lines[i].node),
                                    <<"n", "o", "d", "e", "V", "a", "l", "u", "e">>)))) > 60
          /\ Len(summary.lines[i].text) = 2 + 6 + 60

\* C15 as stated: the summarizer never raises, whatever the payload.
C15_SummarizerNeverRaises == summary.op # "none" => ~summary.threw

\* the value a key of the payload yields as a root, absent when it yields none
YieldsRoot(x) == IF ToBoolean(x) THEN x ELSE Absent

\* C19 as stated: the root is what the payload's root key yields, else what
\* result.root yields, else the whole payload, and stringifyDomPayload returns
\* absent only for a payload that is not an object.
C19_AbsentOnlyForNonObjects ==
    (summary.op = "stringify" /\ ~summary.threw) =>
        /\ (summary.value = Absent) <=> ~IsObject(subject)
        /\ IsObject(subject) =>
              LET first == YieldsRoot(GetKey(subject, <<"r", "o", "o", "t">>))
                  second == YieldsRoot(GetKey(GetKey(subject, <<"r", "e", "s", "u", "l", "t">>), <<"r", "o", "o", "t">>))
                  root == IF first # Absent THEN first
                          ELSE IF second # Absent THEN second
                          ELSE subject
              IN  summary.lines =
                      appendNodeSummary(root, <<>>, <<>>, 0,
                                        OutlineMaxDepth, OutlineMaxChildren).lines

\* C19 amended: the root is the value of the payload's root key when the
\* payload has that key, else the value of result.root when result is an object
\* that has that key, else the whole payload, and stringifyDomPayload returns
\* absent exactly when the payload is not an object or that root is falsy.
C19_RootByKeyThenAbsentIfFalsy ==
    summary.op = "stringify" =>
        LET result == GetKey(subject, <<"r", "e", "s", "u", "l", "t">>)
            root == IF HasKey(subject, <<"r", "o", "o", "t">>) THEN GetKey(subject, <<"r", "o", "o", "t">>)
                    ELSE IF IsObject(result) /\ HasKey(result, <<"r", "o", "o", "t">>)
                        THEN GetKey(result, <<"r", "o", "o", "t">>)
                    ELSE subject
            outline == appendNodeSummary(root, <<>>, <<>>, 0,
                                         OutlineMaxDepth, OutlineMaxChildren)
        IN  IF ~IsObject(subject) \/ ~ToBoolean(root)
                THEN ~summary.threw /\ summary.value = Absent
            ELSE /\ summary.threw = outline.threw
                 /\ summary.lines = outline.lines
                 /\ ~summary.threw =>
                       /\ IsString(summary.value)
                       /\ summary.value.v =
                             join([i \in 1..Len(outline.lines) |-> outline.lines[i].text],
                                  <<"\n">>)

\* C19 witness: a payload whose root key holds null and whose result.root holds
\* a node is summarized to absent
C19_Witness ==
    /\ summary.op = "stringify"
    /\ HasKey(subject, <<"r", "o", "o", "t">>)
    /\ GetKey(subject, <<"r", "o", "o", "t">>) = JNull
    /\ IsObject(GetKey(GetKey(subject, <<"r", "e", "s", "u", "l", "t">>), <<"r", "o", "o", "t">>))
    /\ summary.value = Absent
    /\ ~summary.threw

---------------------------------------------------------------------------
(* Outline capture inside a run.                                           *)

\* the payloads of the answer that the loop of captureDomOutline gets to
\* before payload i: none of them raised or gave an outline
ReachesPayload(payloads, i) ==
    \A j \in 1..(i - 1) :
        LET r == stringifyDomPayload(payloads[j])
        IN  ~r.threw /\ ~ToBoolean(r.value)

FetchFailed(answer) == answer.rejected

NoJsonPayload(answer) == ~answer.rejected /\ extractJsonPayload(answer) = <<>>

NoResolvableRoot(answer) ==
    /\ ~answer.rejected
    /\ extractJsonPayload(answer) # <<>>
    /\ \A i \in 1..Len(extractJsonPayload(answer)) :
          ~ToBoolean(resolveRootNode(extractJsonPayload(answer)[i]))

RenderingRaised(answer) ==
    /\ ~answer.rejected
    /\ \E i \in 1..Len(extractJsonPayload(answer)) :
          /\ ReachesPayload(extractJsonPayload(answer), i)
          /\ stringifyDomPayload(extractJsonPayload(answer)[i]).threw

OutlineCaptureFailure(answer) ==
    \/ FetchFailed(answer)
    \/ NoJsonPayload(answer)
    \/ NoResolvableRoot(answer)
    \/ RenderingRaised(answer)

\* C16: outline capture never aborts the run: the step that fetches the
\* document goes on to summarizing it and the step that summarizes goes on to
\* the capability listing, neither sets an error, and when the fetch failed,
\* the answer has no JSON payload, no payload has a resolvable root, or
\* rendering raised, the outline handed to the run is the placeholder.
C16_OutlineFailureGivesPlaceholder ==
    [][/\ (session.pc = "outline" /\ session'.pc # "outline") =>
             /\ session'.pc = "summarize"
             /\ session'.error = session.error
       /\ (session.pc = "summarize" /\ session'.pc # "summarize") =>
             /\ session'.pc = "tools"
             /\ session'.error = session.error
             /\ session'.exitCode = 0
             /\ OutlineCaptureFailure(session.document) =>
                   session'.domOutline = Placeholder]_vars

\* a run whose outline capture failed with a warning and which then listed the
\* capabilities, asked the planner and evaluated the fragment
C16_Witness ==
    /\ session.pc = "done"
    /\ session.domOutline = Placeholder
    /\ "Unable to capture DOM outline" \in session.warnings
    /\ session.exitCode = 0
    /\ \E i, j, k \in 2..Len(session.calls) :
          /\ i < j /\ j < k
          /\ session.calls[i - 1] = "DOM.getDocument"
          /\ session.calls[i] = "tools/list"
          /\ session.calls[j] = "responses.parse"
          /\ session.calls[k] = "Runtime.evaluate"

---------------------------------------------------------------------------
(* Failures of the capability listing.                                     *)

\* the warnings of the two catch blocks around listTools
ListingWarnings == {"Failed to auto-discover CDP tool", "Unable to list MCP tools"}

\* this step caught a failure of the capability listing
ListingFailureCaught ==
    \E w \in ListingWarnings : w \notin session.warnings /\ w \in session'.warnings

\* C17: a failure of the list-capabilities call is never fatal: the step in
\* which it is caught and warned about, during discovery at connect or while
\* building the tool summary, sets no error and goes on to the following step
\* of the run instead of main's catch.
C17_ListingFailureNeverFatal ==
    [][ListingFailureCaught =>
          /\ session'.error = ""
          /\ session'.pc \in {"enable", "plan"}]_vars

---------------------------------------------------------------------------
(* The order of the requests of one run.                                   *)

\* the requests of run(), without main's closing of the transport
Requests ==
    IF session.calls # <<>> /\ session.calls[Len(session.calls)] = "transport.close"
        THEN SubSeq(session.calls, 1, Len(session.calls) - 1)
        ELSE session.calls

\* the requests of a complete run under the session's configuration
LinearSequence ==
    <<"connect">>
    \o (IF Truthy(config.explicitCdpToolName) THEN <<>> ELSE <<"tools/list">>)
    \o <<"Runtime.enable", "Debugger.enable", "DOM.enable", "Page.enable">>
    \o (IF config.navigationUrl THEN <<"Page.navigate">> ELSE <<>>)
    \o <<"DOM.getDocument", "tools/list", "responses.parse", "Runtime.evaluate">>

\* the run was aborted by a failed domain-enable or navigate call
AbortedWhilePreparing ==
    /\ session.error = "protocol call failed"
    /\ Requests # <<>>
    /\ Requests[Len(Requests)] \in
          {"Runtime.enable", "Debugger.enable", "DOM.enable", "Page.enable", "Page.navigate"}

\* C18: the requests of a run are at every moment a prefix of one linear
\* sequence: connect and capability resolution, the four domain-enable calls in
\* the order Runtime, Debugger, DOM, Page, navigate only if a navigation URL is
\* configured, document-fetch, list-capabilities, the planner request, one
\* evaluate call. Each step sends at most one request and has its answer before
\* the next step, and once a call has failed with an error, a domain-enable or
\* navigate call included, nothing is sent but the closing of the transport.
C18_StrictLinearSequence ==
    /\ [](/\ IsPrefix(Requests, LinearSequence)
          /\ AbortedWhilePreparing => session.pc \in {"catch", "finally", "done"})
    /\ [][/\ Len(session'.calls) <= Len(session.calls) + 1
          /\ session.error # "" =>
                /\ session'.error = session.error
                /\ session'.calls \in {session.calls, Append(session.calls, "transport.close")}]_vars

\* a complete run with a navigation URL and no override, closed by main
C18_Witness ==
    /\ session.pc = "done"
    /\ session.error = ""
    /\ config.navigationUrl
    /\ ~Truthy(config.explicitCdpToolName)
    /\ Requests = LinearSequence
    /\ session.calls = Append(LinearSequence, "transport.close")

---------------------------------------------------------------------------
(* The function-wrapping fragment generated from an empty name.            *)

\* the last run was of the fragment generated from the empty function name
RunOfEmptyName ==
    /\ lastRun.variant = "function"
    /\ lastRun.path \in {SplitDot(<<>>), <<>>}

---------------------------------------------------------------------------
(* The registry of the event-listener fragment, checked under SpecRegistry.*)

\* the string a selector and an event type are registered under
KeyOf(p) == p[1] \o "::" \o p[2]

\* the listeners attached for the selectors and event types under one key
ListenersUnder(key) == {p \in DOMAIN listeners : KeyOf(p) = key /\ listeners[p] > 0}

\* C21 as stated: fragments for a different selector or event type register
\* independently, so a run reports "already registered" only when a listener
\* is attached for its own selector and event type.
C21_OtherPairsRegisterIndependently ==
    (lastRun.variant = "event" /\ lastRun.status = "[BreakpointGuide] already registered") =>
        listeners[LastPair] = 1

\* C21 amended: an absent eventType becomes "click" when the fragment is
\* generated; the registry holds exactly the strings selector + "::" + eventType
\* for which a listener is attached, one listener for each; a run reports
\* "already registered" and attaches nothing exactly when its string is held,
\* which also happens for a different selector and event type that make the
\* same string; and a run whose string is not held and whose selector matches
\* an element attaches, whatever else is registered.
C21_OneRegistrationPerKey ==
    /\ \A plan \in RegistryPlans :
          plan.eventType = Absent =>
              buildEventInstrumentation(plan) =
                  buildEventInstrumentation([plan EXCEPT !.eventType = Str("click")])
    /\ guideState.handlers = {KeyOf(p) : p \in {q \in DOMAIN listeners : listeners[q] > 0}}
    /\ \A p \in DOMAIN listeners :
          /\ listeners[p] <= 1
          /\ Cardinality(ListenersUnder(KeyOf(p))) <= 1
    /\ lastRun.variant = "event" =>
          /\ lastRun.registered <=>
                lastRun.status = "[BreakpointGuide] already registered"
          /\ lastRun.registered => Cardinality(ListenersUnder(KeyOf(LastPair))) = 1
          /\ (~lastRun.registered /\ lastRun.target = "element") =>
                /\ lastRun.status = "[BreakpointGuide] instrumentation attached"
                /\ ListenersUnder(KeyOf(LastPair)) = {LastPair}

\* C21 witness: a second run for "#save-btn" and "click" reports "already
\* registered" while listeners are attached for another selector and for
\* another event type too
C21_Witness ==
    /\ lastRun.variant = "event"
    /\ LastPair = <<"#save-btn", "click">>
    /\ ~lastRun.first
    /\ lastRun.status = "[BreakpointGuide] already registered"
    /\ listeners[LastPair] = 1
    /\ listeners[<<".row", "click">>] = 1
    /\ listeners[<<"#save-btn", "after::click">>] = 1

---------------------------------------------------------------------------
(* Handlers and wrappers at work, checked under SpecHandlers.              *)

\* an attached handler was fired
HandlerFired == DOMAIN listeners # {} /\ lastCall.fn # <<>>

\* a wrapped function was called
WrapperCalled ==
    /\ DOMAIN window # {}
    /\ lastCall.fn # <<>>
    /\ window[lastCall.fn].wraps > 0

\* what follows the debugger statement: nothing in a handler, the page's own
\* function in a wrapper
AfterDebugger == IF HandlerFired THEN <<>> ELSE <<"original">>

\* C22: every firing of an attached handler and every call of a wrapped
\* function logs and then reaches the debugger statement, or fails to log, has
\* the failure caught and reported and then reaches the debugger statement;
\* nothing is thrown to the page's event dispatch or to the caller, and the
\* wrapper still calls the page's function and returns its result.
C22_DebuggerReachedAfterLogging ==
    (HandlerFired \/ WrapperCalled) =>
        /\ ~lastCall.threw
        /\ lastCall.pauses = 1
        /\ \/ /\ lastCall.steps = <<"logged", "debugger">> \o AfterDebugger
              /\ lastCall.reported = 0
           \/ /\ lastCall.steps = <<"log raised", "console.error", "debugger">> \o AfterDebugger
              /\ lastCall.reported = 1
        /\ WrapperCalled =>
              lastCall.result = original(lastCall.fn, lastCall.receiver, lastCall.args).result

\* C22 witness: an attached handler was fired and its logging raised
C22_Witness ==
    /\ HandlerFired
    /\ listeners[lastCall.fn] = 1
    /\ lastCall.reported = 1
    /\ lastCall.steps = <<"log raised", "console.error", "debugger">>

---------------------------------------------------------------------------
(* What a run of the function-wrapping fragment leaves of the bindings.    *)

\* the first i segments of the path of the run of this step
RunPrefix(i) == SubSeq(lastRun'.path, 1, i)

\* an intermediate segment does not exist on its context, and the walk gets
\* there: no context before it is a primitive, on which `in` throws
MissingIntermediate ==
    \E i \in 1..(Len(lastRun'.path) - 1) :
        /\ ValueAt(window, RunPrefix(i)).k = "absent"
        /\ \A j \in 1..(i - 1) : ValueAt(window, RunPrefix(j)).k # "prim"

\* C23: a run of the function-wrapping fragment that does not report "wrapped
\* function" leaves every binding as it was; a run reports "missing segment"
\* exactly when the walk gets to an intermediate segment that does not exist on
\* its context; and the run that reports "wrapped function" changes the binding
\* at its path and no other.
C23_OnlyWrappedRunReplaces ==
    [][lastRun'.variant = "function" =>
          /\ lastRun'.status # "[BreakpointGuide] wrapped function" => window' = window
          /\ lastRun'.status = "[BreakpointGuide] wrapped function" =>
                /\ window[lastRun'.path] = [k |-> "fn", wraps |-> 0]
                /\ window' = [window EXCEPT ![lastRun'.path].wraps = 1]
          /\ lastRun'.status = "[BreakpointGuide] missing segment" <=> MissingIntermediate]_vars

\* C23 witness: after window.a was wrapped, a run for a.b.a stopped at the
\* missing a.b and left the wrapper in place
C23_Witness ==
    /\ lastRun.variant = "function"
    /\ lastRun.path = << <<"a">>, <<"b">>, <<"a">> >>
    /\ lastRun.status = "[BreakpointGuide] missing segment"
    /\ window[<< <<"a">> >>] = [k |-> "fn", wraps |-> 1]
    /\ window[<< <<"a">>, <<"b">> >>].k = "absent"

---------------------------------------------------------------------------
(* The client's calls in any order, checked under SpecClient.              *)

\* C24: whenever connect returns normally a capability name has been resolved,
\* and a callCdpMethod after a normally returning connect and before the next
\* disconnect does not fail with "CDP tool name is not resolved".
C24_ConnectedMeansResolved ==
    /\ (session.op = "connect" /\ session.error = "") => Truthy(mcp.cdpToolName)
    /\ (session.op = "callCdpMethod" /\ session.usable) =>
          session.error # "CDP tool name is not resolved"

---------------------------------------------------------------------------
(* The end of a session, checked under SpecAgentFair.                      *)

\* main is through its finally block
Ended == session.pc = "done"

\* C25: every session gets to the end of main, whether run() returned or threw
\* at any step; disconnect is not called before main's finally block and has
\* been called exactly once at the end; the client then holds neither client
\* nor transport and every protocol call on it fails with "MCP client is not
\* connected"; and the exit code is non-zero exactly when the run failed.
C25_EverySessionDisconnects ==
    /\ <>Ended
    /\ [](/\ ~Ended => session.disconnects = 0
          /\ Ended =>
                /\ session.disconnects = 1
                /\ ~mcp.client
                /\ ~mcp.transport
                /\ callCdpMethod(mcp) = "MCP client is not connected"
                /\ session.error # "" <=> session.exitCode # 0
                /\ Called("transport.close") <=>
                      session.error # "transport failed to connect")

\* C25 witness: a session that failed at the evaluate call and was disconnected
C25_Witness ==
    /\ Ended
    /\ session.error = "protocol call failed"
    /\ session.calls[Len(session.calls) - 1] = "Runtime.evaluate"
    /\ session.calls[Len(session.calls)] = "transport.close"
    /\ session.exitCode = 1
    /\ session.disconnects = 1
    /\ ~mcp.client

===========================================================================
